---- MODULE Spec2Model ----
(***************************************************************************)
(* Delivery-goal orchestration core of the SDM: goal signing/verification, *)
(* the state engine (RequestDownstreamGoalsOnGoalSuccess), the fulfillment *)
(* dispatcher (FulfillGoalOnRequested), goal-set cancellation              *)
(* (cancelGoalSet) and the completion reactor                              *)
(* (RespondOnGoalCompletion / setGitHubStatusOnGoalCompletion).            *)
(*                                                                         *)
(* Every external call (graph query, updateGoal, scheduler, executor) is a *)
(* suspension point: a handler is a sequence of atomic steps, and steps of *)
(* different handlers interleave.  The external store applies updateGoal   *)
(* as a blind write (last writer wins).                                    *)
(***************************************************************************)
EXTENDS Integers, Sequences, FiniteSets, TLC

(***************************************************************************)
(* Bounds of the model.                                                    *)
(***************************************************************************)
MaxInFlight == 2      \* handler invocations running at the same time
MaxDisturbances == 1  \* repeated deliveries, events altered in transit and cancel commands
MaxKeys == 2          \* verification keys a receiver is configured with
MaxCancelRuns == 2    \* times cancelGoalSet is run on the goal set
MaxAttachments == 6   \* attachments the list command collects
MaxListening == 1     \* completion reactors at work at the same time

\* undefined, for a string or boolean field and for an object field
None == "undefined"
Absent == <<>>

(***************************************************************************)
(* SdmGoalState                                                            *)
(***************************************************************************)
States == {"planned", "requested", "waiting_for_pre_approval", "pre_approved",
           "waiting_for_approval", "approved", "in_process", "success",
           "failure", "skipped", "stopped", "canceled"}

\* Terminal states (spec 3, invariant 3)
TerminalStates == {"success", "failure", "canceled", "skipped", "stopped"}

Me == "this-sdm"
Other == "other-sdm"

(***************************************************************************)
(* Signing: crypto, canonical form, signGoal, verifyGoal.                  *)
(* A text is a sequence of strings (string concatenation); RSA-SHA512 is   *)
(* ideal: a signature made with a private key verifies exactly under the   *)
(* paired public key and exactly for the signed text.                      *)
(***************************************************************************)
KeyIds == {"k1", "k2", "k3", "atomist"}

Key(k) == [name |-> k, publicKey |-> <<"pub", k>>, privateKey |-> <<"priv", k>>]

\* crypto.createSign("RSA-SHA512").update(m).sign({key}) followed by toString("base64")
CryptoSign(privateKey, message) ==
    <<"base64", [signer |-> privateKey[2], text |-> message]>>

\* Buffer.from(signature, "base64")
FromBase64(signature) == signature[2]

\* crypto.createVerify("RSA-SHA512").update(m).verify(publicKey, signature)
CryptoVerify(publicKey, message, rawSignature) ==
    /\ rawSignature.signer = publicKey[2]
    /\ rawSignature.text = message

\* !!value of JavaScript for the strings and booleans of a goal event
Truthy(value) == value \notin {None, "", "false"}

normalizeValue(value) == IF Truthy(value) THEN value ELSE "undefined"

\* the line break of the template literal, with the indentation it carries
NL == "\n        "

\* two values that hold a line break and a label of the canonical form
SplicedName == "a\n        environment:0-code"
SplicedEnvironment == "0-code\n        environment:1-staging"

\* The characters of a string, as the pieces string concatenation joins: the
\* strings of the model are whole pieces, except the two values that are
\* themselves made of pieces.  No piece is a concatenation of other pieces, so
\* two texts are the same string exactly when they are the same sequence.
Chars(s) ==
    CASE s = SplicedName -> <<"a", NL, "environment:", "0-code">>
      [] s = SplicedEnvironment -> <<"0-code", NL, "environment:", "1-staging">>
      [] OTHER -> <<s>>

normalizeProvenance(p) ==
    IF p # Absent
    THEN Chars(normalizeValue(p.registration)) \o <<":">>
         \o Chars(normalizeValue(p.version)) \o <<"/">>
         \o Chars(normalizeValue(p.name)) \o <<"-">>
         \o Chars(normalizeValue(p.userId)) \o <<"-">>
         \o Chars(normalizeValue(p.channelId)) \o <<"-">> \o Chars(p.ts)
    ELSE <<"undefined">>

RECURSIVE JoinTexts(_, _)
\* texts.join(sep) where every element is itself a text
JoinTexts(texts, sep) ==
    IF Len(texts) = 0 THEN <<>>
    ELSE IF Len(texts) = 1 THEN texts[1]
    ELSE texts[1] \o <<sep>> \o JoinTexts(Tail(texts), sep)

PreConditionText(p) == Chars(p.environment) \o <<"/">> \o Chars(p.uniqueName)

normalizeGoal(goal) ==
    <<"uniqueName:">> \o Chars(goal.uniqueName) \o <<NL>>
    \o <<"environment:">> \o Chars(goal.environment) \o <<NL>>
    \o <<"goalSetId:">> \o Chars(goal.goalSetId) \o <<NL>>
    \o <<"state:">> \o Chars(goal.state) \o <<NL>>
    \o <<"ts:">> \o Chars(goal.ts) \o <<NL>>
    \o <<"version:">> \o Chars(goal.version) \o <<NL>>
    \o <<"repo:">> \o Chars(goal.repo.owner) \o <<"/">> \o Chars(goal.repo.name)
    \o <<"/">> \o Chars(goal.repo.providerId) \o <<NL>>
    \o <<"sha:">> \o Chars(goal.sha) \o <<NL>>
    \o <<"branch:">> \o Chars(goal.branch) \o <<NL>>
    \o <<"fulfillment:">> \o Chars(goal.fulfillment.name) \o <<"-">>
    \o Chars(goal.fulfillment.method) \o <<NL>>
    \o <<"preConditions:">>
    \o JoinTexts([i \in 1..Len(goal.preConditions) |->
                     PreConditionText(goal.preConditions[i])], ",")
    \o <<NL>>
    \o <<"data:">> \o Chars(normalizeValue(goal.data)) \o <<NL>>
    \o <<"url:">> \o Chars(normalizeValue(goal.url)) \o <<NL>>
    \o <<"externalUrls:">>
    \o JoinTexts([i \in 1..Len(goal.externalUrls) |-> Chars(goal.externalUrls[i].url)], ",")
    \o <<NL>>
    \o <<"provenance:">>
    \o JoinTexts([i \in 1..Len(goal.provenance) |->
                     normalizeProvenance(goal.provenance[i])], ",")
    \o <<NL>>
    \o <<"retry:">> \o Chars(normalizeValue(goal.retryFeasible)) \o <<NL>>
    \o <<"approvalRequired:">> \o Chars(normalizeValue(goal.approvalRequired)) \o <<NL>>
    \o <<"approval:">> \o normalizeProvenance(goal.approval) \o <<NL>>
    \o <<"preApprovalRequired:">> \o Chars(normalizeValue(goal.preApprovalRequired)) \o <<NL>>
    \o <<"preApproval:">> \o normalizeProvenance(goal.preApproval)

\* GoalSigningAutomationEventListener.initVerificationKeys: the configured
\* keys, then the signing key when set, then the Atomist public key.
initVerificationKeys(configured, signingKey) ==
    configured
    \o (IF signingKey # Absent THEN <<signingKey>> ELSE <<>>)
    \o <<Key("atomist")>>

\* signGoal: the goal with its signature, or undefined when signing is off
signGoal(goal, gsc) ==
    IF gsc.enabled /\ gsc.signingKey # Absent
    THEN [goal EXCEPT !.signature =
             CryptoSign(gsc.signingKey.privateKey, normalizeGoal(goal))]
    ELSE Absent

\* a message destination: the ingester of a root type, or a chat channel
IngesterOf(rootType) == [userAgent |-> "ingester", rootType |-> rootType]

\* GoalSigningAutomationEventListener.messageSending: a message for the SdmGoal
\* ingester is replaced by what signGoal returns; the log line that follows
\* reads goal.uniqueName, a TypeError when signGoal returned undefined
messageSending(message, dests, gsc) ==
    IF \E i \in 1..Len(dests) :
           dests[i].userAgent = "ingester" /\ dests[i].rootType = "SdmGoal"
    THEN IF signGoal(message, gsc) = Absent
         THEN [threw |-> TRUE, message |-> Absent]
         ELSE [threw |-> FALSE, message |-> signGoal(message, gsc)]
    ELSE [threw |-> FALSE, message |-> message]

isGoalRejected(sdmGoal) ==
    /\ sdmGoal.state = "failure"
    /\ sdmGoal.description = <<"Rejected: ", sdmGoal.name>>

RECURSIVE FindKeyFrom(_, _, _, _)
\* Array.prototype.find over the verification keys: the first key, in list
\* order, that verifies the signature; None when no key does
FindKeyFrom(keys, i, message, rawSignature) ==
    IF i > Len(keys) THEN None
    ELSE IF CryptoVerify(keys[i].publicKey, message, rawSignature) THEN keys[i].name
    ELSE FindKeyFrom(keys, i + 1, message, rawSignature)

\* a variant that tries the first key only
FindFirstKeyOnly(keys, message, rawSignature) ==
    IF Len(keys) > 0 /\ CryptoVerify(keys[1].publicKey, message, rawSignature)
    THEN keys[1].name
    ELSE None

FindVerificationKey(keys, message, rawSignature) ==
    FindKeyFrom(keys, 1, message, rawSignature)

\* verifyGoal: "ok" when the goal passes (verified, or nothing to verify),
\* otherwise the reason handed to rejectGoal before the Error is thrown
verifyGoal(goal, gsc) ==
    IF gsc.enabled /\ goal # Absent /\ ~isGoalRejected(goal)
    THEN IF goal.signature # Absent
         THEN IF FindVerificationKey(gsc.verificationKeys, normalizeGoal(goal),
                                     FromBase64(goal.signature)) # None
              THEN "ok"
              ELSE "signature was invalid"
         ELSE "signature was missing"
    ELSE "ok"

\* rejectGoal: the update it writes
rejectGoalUpdate(reason, sdmGoal) ==
    [state |-> "failure", description |-> <<"Rejected ", sdmGoal.name, " because ", reason>>]

(***************************************************************************)
(* Goals of one goal set.  A plan gives every goal of the set its          *)
(* definition; goals are identified by uniqueName.                         *)
(***************************************************************************)
Goals == {"a", "b", "c"}

GoalSetId == "gs1"

GoalKey(env, uniqueName) == [environment |-> env, uniqueName |-> uniqueName]

GoalDef(name, env, pre, method, fname, registration, provenance, preApproval, retry) ==
    [name |-> name, environment |-> env, preConditions |-> pre,
     method |-> method, fname |-> fname, registration |-> registration,
     provenance |-> provenance, preApprovalRequired |-> preApproval,
     retryFeasible |-> retry, cancelable |-> TRUE]

\* a -> b and a -> c, all fulfilled by this SDM; b may be retried, c asks
\* for pre-approval
PlanChain ==
    [g \in Goals |->
        CASE g = "a" -> GoalDef("build", "0-code", <<>>, "sdm", "builder", Me, Me, FALSE, FALSE)
          [] g = "b" -> GoalDef("test", "0-code", <<GoalKey("0-code", "a")>>,
                                "sdm", "tester", Me, Me, FALSE, TRUE)
          [] g = "c" -> GoalDef("deploy", "1-staging", <<GoalKey("0-code", "a")>>,
                                "sdm", "deployer", Me, Me, TRUE, FALSE)]

\* c needs a and b; b is a goal that cancelableGoal does not take for cancelable
PlanJoin ==
    [g \in Goals |->
        CASE g = "a" -> GoalDef("build", "0-code", <<>>, "sdm", "builder", Me, Me, FALSE, FALSE)
          [] g = "b" -> [GoalDef("build", "1-staging", <<>>,
                                 "sdm", "builder", Me, Me, FALSE, FALSE)
                            EXCEPT !.cancelable = FALSE]
          [] g = "c" -> GoalDef("deploy", "1-staging",
                                <<GoalKey("0-code", "a"), GoalKey("1-staging", "b")>>,
                                "sdm", "deployer", Me, Me, FALSE, FALSE)]

\* side effects and a goal nobody fulfills: a is a side effect named like
\* this registration that gives no fulfillment.registration, b is a side
\* effect registered to this registration under a name of its own, c has no
\* fulfillment
PlanEffects ==
    [g \in Goals |->
        CASE g = "a" -> GoalDef("build", "0-code", <<>>, "side-effect", Me, None, Me, FALSE, FALSE)
          [] g = "b" -> GoalDef("publish", "0-code", <<>>,
                                "side-effect", "publisher", Me, Me, FALSE, FALSE)
          [] g = "c" -> GoalDef("notify", "0-code", <<>>, "other", None, None, Me, FALSE, FALSE)]

\* b belongs to another registration; c depends on a and is a side effect
\* named like this registration
PlanForeign ==
    [g \in Goals |->
        CASE g = "a" -> GoalDef("build", "0-code", <<>>, "sdm", "builder", None, Me, FALSE, FALSE)
          [] g = "b" -> GoalDef("scan", "0-code", <<>>, "side-effect", Other, Other, Other, FALSE, FALSE)
          [] g = "c" -> GoalDef("deploy", "1-staging", <<GoalKey("0-code", "a")>>,
                                "side-effect", Me, None, Me, FALSE, FALSE)]

Plans == {PlanChain, PlanJoin, PlanEffects, PlanForeign}

\* a -> b and a -> c where b is fulfilled by other means and c is a side effect
\* under a name of its own
PlanMethods ==
    [g \in Goals |->
        CASE g = "a" -> GoalDef("build", "0-code", <<>>, "sdm", "builder", Me, Me, FALSE, FALSE)
          [] g = "b" -> GoalDef("review", "0-code", <<GoalKey("0-code", "a")>>,
                                "other", None, None, Me, FALSE, FALSE)
          [] g = "c" -> GoalDef("publish", "0-code", <<GoalKey("0-code", "a")>>,
                                "side-effect", "publisher", Me, Me, FALSE, FALSE)]

\* a goal scheduler; supports(gi) answers true for the goals it names
GoalScheduler(name, supports) == [name |-> name, supports |-> supports]

\* configuration.sdm.goalScheduler: undefined, one scheduler, or an array
NoScheduler == [form |-> "undefined", items |-> <<>>]
OneScheduler(gl) == [form |-> "single", items |-> <<gl>>]
SchedulerArray(gls) == [form |-> "array", items |-> gls]

K8s == GoalScheduler("k8s", Goals)

\* three schedulers: the first supports no goal, the second a, the
\* third a and b
ThreeSchedulers ==
    SchedulerArray(<<GoalScheduler("fargate", {}), GoalScheduler("k8s", {"a"}),
                     GoalScheduler("spare", {"a", "b"})>>)

\* The configurations explored: a plan, whether goal signing is enabled and
\* the goal schedulers (isolated workers) configured
Scenario(p, sign, sched) == [plan |-> p, signing |-> sign, scheduler |-> sched]

Scenarios ==
    {Scenario(PlanChain, FALSE, NoScheduler), Scenario(PlanChain, TRUE, NoScheduler),
     Scenario(PlanChain, TRUE, OneScheduler(K8s)), Scenario(PlanJoin, FALSE, ThreeSchedulers),
     Scenario(PlanEffects, TRUE, NoScheduler), Scenario(PlanEffects, FALSE, OneScheduler(K8s)),
     Scenario(PlanForeign, FALSE, NoScheduler),
     Scenario(PlanForeign, TRUE, SchedulerArray(<<K8s>>))}

JsBool(b) == IF b THEN "true" ELSE "false"

\* The SdmGoal message of goal g of the plan in state st, before signing
GoalMessage(plan, g, st, description) ==
    [uniqueName |-> g,
     name |-> plan[g].name,
     environment |-> plan[g].environment,
     goalSetId |-> GoalSetId,
     state |-> st,
     description |-> description,
     ts |-> "1",
     version |-> "1",
     repo |-> [owner |-> "acme", name |-> "shop", providerId |-> "gh"],
     sha |-> "sha1",
     branch |-> "master",
     fulfillment |-> [name |-> plan[g].fname, method |-> plan[g].method,
                      registration |-> plan[g].registration],
     preConditions |-> plan[g].preConditions,
     data |-> None,
     url |-> None,
     externalUrls |-> <<>>,
     provenance |-> <<[registration |-> plan[g].provenance, version |-> "1.0",
                       name |-> "SetGoalsOnPush", userId |-> None,
                       channelId |-> None, ts |-> "1"]>>,
     retryFeasible |-> JsBool(plan[g].retryFeasible),
     approvalRequired |-> "false",
     approval |-> Absent,
     preApprovalRequired |-> JsBool(plan[g].preApprovalRequired),
     preApproval |-> Absent,
     signature |-> Absent]

SigningKey == Key("k1")

\* configuration.sdm.goalSigning after the listener's constructor has run
GoalSigning(enabled) ==
    [enabled |-> enabled, signingKey |-> SigningKey,
     verificationKeys |-> initVerificationKeys(<<Key("k2")>>, SigningKey)]

(***************************************************************************)
(* State.                                                                  *)
(***************************************************************************)
VARIABLES
    plan,          \* the goal definitions of the set (fixed by the planner)
    signing,       \* configuration.sdm.goalSigning.enabled
    scheduler,     \* configuration.sdm.goalScheduler
    store,         \* external store: goal -> [state, description]
    busRequested,  \* OnAnyRequestedSdmGoal events not yet delivered for the last time
    busSuccess,    \* OnAnySuccessfulSdmGoal events, each with the goals of its push
    busCompleted,  \* OnAnyCompletedSdmGoal events
    handlers,      \* handler invocations suspended at an external call
    cancel,        \* the cancelGoalSet invocation, and what its runs left
    disturbed,     \* repeated deliveries, altered events and cancel commands so far
    reqCount,      \* goal -> times the goal was put in state requested
    runs,          \* goal -> times the executor was invoked or a worker scheduled
    last,          \* the step taken last: who, what, on which goal, with what result
    statuses,      \* external statuses published by the completion reactor
    setRecord,     \* state of the goal-set record last emitted
    sg,            \* a goal on its way from a signing sender to a verifying receiver
    nz,            \* two goal events and their canonical forms
    goalSets,      \* external store: the goal-set records and the states of their goals
    cmd,           \* the list / cancel goal sets command under way
    worker,        \* the isolated worker process
    kube,          \* the Jobs of the cluster and the launches under way
    task,          \* the job task an ExecuteTaskListener invocation handles
    request,       \* one goal that is ready, on its way through the callbacks
    dep,           \* a successful goal, a goal and the answer whether it depends
    deploy,        \* the deploy-enablement events sent and the commands invoked
    clean,         \* the Jobs of the namespace and a run of the job cleanup
    mapping,       \* a tree node given to mapTest and what came of it
    pack,          \* the processes of the deployment: the one started by hand and the Jobs it leads to
    rej,           \* a goal event verified by one SDM and, as that SDM left it, verified again
    planning       \* the goals-set listener: the goal set it is told of and what it published

vars == <<plan, signing, scheduler, store, busRequested, busSuccess, busCompleted,
          handlers, cancel, disturbed, reqCount, runs, last,
          statuses, setRecord, sg, nz, goalSets, cmd, worker, kube, task,
          request, dep,
          deploy,
          clean,
          mapping,
          pack,
          rej,
          planning>>

\* what the dispatcher, the state engine and cancelGoalSet work on
core == <<plan, signing, scheduler, store, busRequested, busSuccess, busCompleted,
          handlers, cancel, disturbed, reqCount, runs, last, statuses, setRecord>>

\* what the commands, the worker, the Job launcher and the task listener work on
tools == <<goalSets, cmd, worker, kube, task, request, dep,
          deploy,
          clean,
          mapping,
          pack,
          rej,
          planning>>

config == <<plan, signing, scheduler>>

\* the order in which fetchGoalsForCommit lists the goals of the set
GoalOrder == <<"a", "b", "c">>

StateOf(st) == [g \in Goals |-> st[g].state]

\* What reaches the bus for an update: GoalSigningAutomationEventListener
\* signs the outgoing goal when signing is enabled
Outgoing(g, upd) ==
    IF signing
    THEN messageSending(GoalMessage(plan, g, upd.state, upd.description),
                        <<IngesterOf("SdmGoal")>>, GoalSigning(TRUE)).message
    ELSE GoalMessage(plan, g, upd.state, upd.description)

\* updateGoal(ctx, goal, {state, description}); req, suc and com are the buses
\* without the events consumed.  The store takes the update as it comes (last
\* writer wins) and raises the subscriptions.
UpdateGoal(g, upd, req, suc, com) ==
    /\ store' = [store EXCEPT ![g] = upd]
    /\ busRequested' = req \cup
           (IF upd.state = "requested" THEN {Outgoing(g, upd)} ELSE {})
    /\ busSuccess' = suc \cup
           (IF upd.state = "success"
            THEN {[goal |-> Outgoing(g, upd),
                   snap |-> [x \in Goals |-> IF x = g THEN upd.state ELSE store[x].state]]}
            ELSE {})
    /\ busCompleted' = com \cup
           (IF upd.state \in {"success", "failure"} THEN {Outgoing(g, upd)} ELSE {})
    /\ reqCount' = [reqCount EXCEPT ![g] = @ + (IF upd.state = "requested" THEN 1 ELSE 0)]

NoUpdate(req, suc, com) ==
    /\ busRequested' = req
    /\ busSuccess' = suc
    /\ busCompleted' = com
    /\ UNCHANGED <<store, reqCount>>

\* Record of a step: handler `by` did `did` for the event of goal g, which it
\* saw in state `seen`; it wrote state `wrote` (None: no update) and reported
\* `outcome` to the bus (None: still running); `verified` is verifyGoal's
\* answer for the event the handler works on.
Step(by, did, g, seen, wrote, outcome, verified) ==
    last' = [by |-> by, did |-> did, goal |-> g, seen |-> seen, wrote |-> wrote,
             outcome |-> outcome, verified |-> verified,
             via |-> None, log |-> "none", arg |-> None, published |-> {}]

\* The same for a step of an invocation that has a progress log: `via` is the
\* scheduler that took the goal ("in-process": none did), `log` the progress
\* log after the step ("open", "closed", or "closed-after-publish" when it was
\* closed after the state the step wrote was published), `arg` the result the
\* scheduler or the executor returned.
StepOfInvocation(did, g, seen, wrote, outcome, verified, via, log, arg) ==
    last' = [by |-> "fulfill", did |-> did, goal |-> g, seen |-> seen, wrote |-> wrote,
             outcome |-> outcome, verified |-> verified,
             via |-> via, log |-> log, arg |-> arg, published |-> {}]

\* The step of the completion reactor, with the statuses it published
StepOfReactor(did, g, seen, published, outcome) ==
    last' = [by |-> "reactor", did |-> did, goal |-> g, seen |-> seen, wrote |-> None,
             outcome |-> outcome, verified |-> "ok",
             via |-> None, log |-> "none", arg |-> None, published |-> published]

\* StatusState of the external status
StatusState == {"pending", "success", "failure", "error"}

\* the goal set the planner tells the goals-set listeners of
PlannedGoalSet(p) == [defined |-> TRUE, goals |-> GoalOrder]

\* createPendingGitHubStatusOnGoalSet: the statuses the goals-set listener
\* creates for a new goal set: pending when the set has goals
createPendingGitHubStatusOnGoalSet(goalSet) ==
    IF goalSet.defined /\ Len(goalSet.goals) > 0 THEN <<"pending">> ELSE <<>>

\* The bus delivers an event at least once: a delivery either is the last one
\* (the event leaves the bus) or the event stays to be delivered again.
Deliver(again) ==
    /\ again => disturbed < MaxDisturbances
    /\ disturbed' = IF again THEN disturbed + 1 ELSE disturbed

Remaining(bus, e, again) == IF again THEN bus ELSE bus \ {e}

FreeIds == (1..MaxInFlight) \ {h.id : h \in handlers}

NewId == CHOOSE i \in FreeIds : \A j \in FreeIds : i <= j

(***************************************************************************)
(* Planner: leaves start requested (waiting_for_pre_approval when they ask *)
(* for pre-approval), goals with preconditions start planned.              *)
(***************************************************************************)
InitialState(def) ==
    IF Len(def.preConditions) = 0
    THEN IF def.preApprovalRequired THEN "waiting_for_pre_approval" ELSE "requested"
    ELSE "planned"

InitialStore(p) ==
    [g \in Goals |-> [state |-> InitialState(p[g]),
                      description |-> <<"Planned: ", p[g].name>>]]

InitScenarioAfter(sc, deliveries) ==
    /\ plan = sc.plan
    /\ signing = sc.signing
    /\ scheduler = sc.scheduler
    /\ store = InitialStore(plan)
    /\ busRequested = {Outgoing(g, InitialStore(plan)[g]) :
                          g \in {x \in Goals : InitialState(plan[x]) = "requested"}}
    /\ busSuccess = {}
    /\ busCompleted = {}
    /\ handlers = {}
    /\ cancel = [pc |-> "idle", snap |-> StateOf(InitialStore(plan)), next |-> 1,
                 run |-> 0, left |-> [g \in Goals |-> None],
                 prev |-> [g \in Goals |-> None]]
    /\ disturbed = deliveries
    /\ reqCount = [g \in Goals |-> IF InitialState(plan[g]) = "requested" THEN 1 ELSE 0]
    /\ runs = [g \in Goals |-> 0]
    /\ last = [by |-> "planner", did |-> "plan", goal |-> "a", seen |-> None,
               wrote |-> InitialState(plan["a"]), outcome |-> "Success", verified |-> "ok",
               via |-> None, log |-> "none", arg |-> None, published |-> {}]
    /\ statuses = {x \in StatusState :
                       \E i \in 1..Len(createPendingGitHubStatusOnGoalSet(PlannedGoalSet(sc.plan))) :
                           createPendingGitHubStatusOnGoalSet(PlannedGoalSet(sc.plan))[i] = x}
    /\ setRecord = "pending"

\* the goal set as planned, no repeated delivery spent
InitScenario(sc) == InitScenarioAfter(sc, 0)

\* no goal under way in the signing round trip
SgIdle ==
    [pc |-> "idle", goal |-> Absent, sent |-> Absent, dests |-> <<>>, sender |-> Absent,
     own |-> Absent, configured |-> <<>>, threw |-> FALSE, altered |-> None,
     verdict |-> None]

\* no pair of goal events under comparison
NzIdle == [pc |-> "idle", left |-> Absent, right |-> Absent, leftText |-> <<>>,
           rightText |-> <<>>]

\* no goal sets, no command, no worker, no Job and no task
NoGoalSets == <<>>
CmdIdle == [kind |-> None, pc |-> "idle", pgs |-> <<>>, next |-> 1, attachments |-> <<>>,
            responded |-> FALSE, pendingAtStart |-> {}, goalSetId |-> None,
            goals |-> <<>>, goal |-> 1]
WorkerIdle == [pc |-> "idle", isMaster |-> FALSE, goalSetId |-> None, uniqueName |-> None,
               correlationId |-> None, data |-> <<>>, processed |-> <<>>,
               results |-> None, exitCode |-> None, listener |-> None, outcome |-> None]
KubeIdle == [deployment |-> FALSE, jobs |-> {}, launches |-> <<>>, issued |-> <<>>]
TaskIdle ==
    [pc |-> "idle", state |-> "created", name |-> "TestCommand", jobData |-> "{}",
     data |-> "{}", jobDataParsed |-> Absent, taskData |-> Absent, invoked |-> <<>>,
     result |-> Absent, updates |-> <<>>, outcome |-> None]
RequestIdle ==
    [pc |-> "idle", sdmG |-> None, cbs |-> <<>>, next |-> 1, g |-> None,
     invoked |-> <<>>, update |-> None, older |-> FALSE]
DepIdle == [pc |-> "idle", successfulGoal |-> Absent, goal |-> Absent, result |-> FALSE]

DeployIdle == [invoked |-> <<>>, sent |-> <<>>, responded |-> <<>>]

CleanIdle ==
    [isMaster |-> FALSE, jobs |-> <<>>, pc |-> "idle", listed |-> <<>>, todo |-> <<>>,
     deleted |-> <<>>, relaunched |-> FALSE, launch |-> <<>>, issued |-> <<>>]

MappingIdle ==
    [pc |-> "idle", test |-> <<>>, result |-> <<>>]

PackIdle ==
    [procs |-> <<>>, supports |-> {}]

RejIdle ==
    [pc |-> "idle", goal |-> Absent, first |-> Absent, later |-> Absent, updates |-> <<>>,
     errors |-> 0]

PlanningIdle ==
    [pc |-> "idle", goalSet |-> [defined |-> FALSE, goals |-> <<>>], published |-> <<>>]

ToolsIdle ==
    /\ goalSets = NoGoalSets
    /\ cmd = CmdIdle
    /\ worker = WorkerIdle
    /\ kube = KubeIdle
    /\ task = TaskIdle
    /\ request = RequestIdle
    /\ dep = DepIdle
    /\ deploy = DeployIdle
    /\ clean = CleanIdle
    /\ mapping = MappingIdle
    /\ pack = PackIdle
    /\ rej = RejIdle
    /\ planning = PlanningIdle

Init ==
    /\ \E sc \in Scenarios : InitScenario(sc)
    /\ sg = SgIdle
    /\ nz = NzIdle
    /\ ToolsIdle

(***************************************************************************)
(* Relevance (validateGoal).                                               *)
(***************************************************************************)
\* the goal was planned by this registration
isGoalRelevant(sdmGoal) == sdmGoal.provenance[1].registration = Me

\* this registration is the one to fulfill the goal
shouldFulfill(sdmGoal) ==
    IF Truthy(sdmGoal.fulfillment.registration)
    THEN sdmGoal.fulfillment.registration = Me
    ELSE isGoalRelevant(sdmGoal)

\* isGoalCanceled: the goal as the store has it now
isGoalCanceled(sdmGoal) == store[sdmGoal.uniqueName].state = "canceled"

\* cancelableGoal: whether the goal is one that can be canceled
cancelableGoal(sdmGoal) == plan[sdmGoal.uniqueName].cancelable

\* a variant that never finds a goal canceled
canceledNeverChecked(sdmGoal) == FALSE

\* the re-check of handle: cancelableGoal(...) && isGoalCanceled(...)
goalHasBeenCanceled(sdmGoal) == cancelableGoal(sdmGoal) /\ isGoalCanceled(sdmGoal)

(***************************************************************************)
(* FulfillGoalOnRequested.handle                                           *)
(***************************************************************************)
\* goalSchedulers of findGoalScheduler: the configured scheduler or schedulers
\* as an array
GoalSchedulers == scheduler.items

RECURSIVE FirstSupporting(_, _, _)
\* for (const gl of goalSchedulers) if (await gl.supports(gi)) return gl
FirstSupporting(goalSchedulers, i, gi) ==
    IF i > Len(goalSchedulers) THEN Absent
    ELSE IF gi.uniqueName \in goalSchedulers[i].supports THEN goalSchedulers[i]
    ELSE FirstSupporting(goalSchedulers, i + 1, gi)

RECURSIVE LastSupporting(_, _, _)
LastSupporting(goalSchedulers, i, gi) ==
    IF i < 1 THEN Absent
    ELSE IF gi.uniqueName \in goalSchedulers[i].supports THEN goalSchedulers[i]
    ELSE LastSupporting(goalSchedulers, i - 1, gi)

\* a variant that returns the last scheduler that supports the invocation
findLastGoalScheduler(gi, goalScheduler) ==
    IF goalScheduler.form = "undefined" THEN Absent
    ELSE LastSupporting(goalScheduler.items, Len(goalScheduler.items), gi)

\* findGoalScheduler: the first configured scheduler that supports the
\* invocation gi; undefined when none is configured or none supports it
findGoalScheduler(gi, goalScheduler) ==
    IF goalScheduler.form = "undefined" THEN Absent
    ELSE FirstSupporting(goalScheduler.items, 1, gi)

\* where the goal is run: the scheduler found, else in process
RunsVia(gi) ==
    IF findGoalScheduler(gi, scheduler) # Absent
    THEN findGoalScheduler(gi, scheduler).name
    ELSE "in-process"

\* what a scheduler may return from schedule()
ScheduleResults ==
    {Absent,
     [hasCode |-> FALSE, code |-> 0, state |-> None, phase |-> None],
     [hasCode |-> TRUE, code |-> 0, state |-> None, phase |-> "queued"],
     [hasCode |-> TRUE, code |-> 1, state |-> None, phase |-> None],
     [hasCode |-> TRUE, code |-> 0, state |-> "success", phase |-> None]}

ScheduleFailed(result) == result # Absent /\ result.hasCode /\ result.code # 0

\* a variant that marks every scheduled goal in_process, phase scheduled
ScheduleUpdateInProcess(result, sdmGoal) ==
    IF ScheduleFailed(result)
    THEN [state |-> "failure", description |-> <<"Failed to schedule goal">>,
          phase |-> None]
    ELSE [state |-> "in_process", description |-> <<"Working: ", sdmGoal.name>>,
          phase |-> "scheduled"]

\* the update written after schedule() returned
ScheduleUpdate(result, sdmGoal) ==
    IF ScheduleFailed(result)
    THEN [state |-> "failure", description |-> <<"Failed to schedule goal">>,
          phase |-> None]
    ELSE [state |-> IF result # Absent /\ Truthy(result.state)
                    THEN result.state ELSE "in_process",
          description |-> <<"Working: ", sdmGoal.name>>,
          phase |-> IF result # Absent /\ Truthy(result.phase)
                    THEN result.phase ELSE "scheduled"]

\* the states of a result after which handle closes the progress log
terminatingStates ==
    {"canceled", "failure", "skipped", "stopped", "success", "waiting_for_approval"}

\* !result || !result.state || terminatingStates.includes(result.state)
closesProgressLog(result) ==
    \/ result = Absent
    \/ ~Truthy(result.state)
    \/ result.state \in terminatingStates

\* a variant that fails the goal under its name
NoFulfillmentForName(sdmGoal) ==
    [state |-> "skipped", description |-> <<"No fulfillment for ", sdmGoal.uniqueName>>]

\* the update of a goal with neither Sdm nor SideEffect fulfillment
NoFulfillmentUpdate(sdmGoal) ==
    [state |-> "failure", description |-> <<"No fulfillment for ", sdmGoal.uniqueName>>]

\* what executeGoal may end with: a result of the executor (or an exception)
ExecuteResults ==
    {Absent,
     [code |-> 0, state |-> None],
     [code |-> 1, state |-> None],
     [code |-> 0, state |-> "waiting_for_approval"],
     [code |-> 0, state |-> "skipped"],
     [code |-> 0, state |-> "stopped"],
     [code |-> 0, state |-> "canceled"],
     [code |-> 0, state |-> "in_process"]}

\* executeGoal: the state recorded for a result (the returned state, else by code)
ExecuteUpdate(result, sdmGoal) ==
    [state |-> IF result = Absent THEN "success"
               ELSE IF Truthy(result.state) THEN result.state
               ELSE IF result.code = 0 THEN "success" ELSE "failure",
     description |-> <<"Completed: ", sdmGoal.name>>]

\* what handle returns for a result: the result with code 0
HandlerResult(result) == [code |-> 0]

\* what the bus is told for a returned HandlerResult
Outcome(handlerResult) == IF handlerResult.code = 0 THEN "Success" ELSE "Failure"

\* a variant that goes by the name of the fulfillment
notFulfillingSideEffectByName(sdmGoal) ==
    /\ sdmGoal.fulfillment.method = "side-effect"
    /\ sdmGoal.fulfillment.name # Me

\* a side effect that is not this registration's to perform
notFulfillingSideEffect(sdmGoal) ==
    /\ sdmGoal.fulfillment.method = "side-effect"
    /\ sdmGoal.fulfillment.registration # Me

\* handle on the event e up to the first suspension: relevance, then
\* signature verification (a rejected goal is failed and the Error thrown);
\* left are the requested events that stay on the bus
FulfillBegin(e, left) ==
    LET g == e.uniqueName
        v == verifyGoal(e, GoalSigning(signing))
    IN IF ~shouldFulfill(e)
       THEN /\ NoUpdate(left, busSuccess, busCompleted)
            /\ Step("fulfill", "ignore", g, e.state, None, "Success", v)
            /\ UNCHANGED handlers
       ELSE IF v # "ok"
       THEN /\ UpdateGoal(g, rejectGoalUpdate(v, e), left, busSuccess, busCompleted)
            /\ Step("fulfill", "reject", g, e.state, "failure", "Error", v)
            /\ UNCHANGED handlers
       ELSE /\ NoUpdate(left, busSuccess, busCompleted)
            /\ Step("fulfill", "start", g, e.state, None, None, v)
            /\ handlers' = handlers \cup
                   {[id |-> NewId, kind |-> "fulfill", goal |-> e, pc |-> "admit",
                     via |-> None, result |-> Absent]}

\* Delivery of a requested-goal event to FulfillGoalOnRequested.handle
FulfillStart(e) ==
    /\ e \in busRequested
    /\ Cardinality(handlers) < MaxInFlight
    /\ \E again \in BOOLEAN :
         /\ Deliver(again)
         /\ FulfillBegin(e, Remaining(busRequested, e, again))
    /\ UNCHANGED <<config, tools, sg, nz, cancel, runs, statuses, setRecord>>

\* The cancellation re-check is answered (a query of the goal as the store
\* has it now); the fulfillment method decides, then the goal scheduler is
\* looked up.  A goal without fulfillment is failed by the update that follows.
FulfillAdmit(h) ==
    /\ h \in handlers
    /\ h.kind = "fulfill"
    /\ h.pc = "admit"
    /\ LET sdmGoal == h.goal
           g == sdmGoal.uniqueName
           v == verifyGoal(sdmGoal, GoalSigning(signing))
       IN IF goalHasBeenCanceled(sdmGoal)
          THEN /\ NoUpdate(busRequested, busSuccess, busCompleted)
               /\ Step("fulfill", "canceled", g, sdmGoal.state, None, "Success", v)
               /\ handlers' = handlers \ {h}
          ELSE IF notFulfillingSideEffect(sdmGoal)
          THEN /\ NoUpdate(busRequested, busSuccess, busCompleted)
               /\ Step("fulfill", "ignore", g, sdmGoal.state, None, "Success", v)
               /\ handlers' = handlers \ {h}
          ELSE IF sdmGoal.fulfillment.method = "other"
          THEN /\ NoUpdate(busRequested, busSuccess, busCompleted)
               /\ Step("fulfill", "unfulfilled", g, sdmGoal.state, None, None, v)
               /\ handlers' = (handlers \ {h}) \cup {[h EXCEPT !.pc = "no-fulfillment"]}
          ELSE /\ NoUpdate(busRequested, busSuccess, busCompleted)
               /\ StepOfInvocation("admit", g, sdmGoal.state, None, None, v,
                                   RunsVia(sdmGoal), "open", None)
               /\ handlers' = (handlers \ {h}) \cup
                     {[h EXCEPT !.pc = IF findGoalScheduler(sdmGoal, scheduler) # Absent
                                       THEN "schedule" ELSE "execute",
                                !.via = RunsVia(sdmGoal)]}
    /\ UNCHANGED <<config, tools, sg, nz, cancel, disturbed, runs, statuses,
                   setRecord>>

\* updateGoal of a goal with neither Sdm nor SideEffect fulfillment, written
\* when the handler resumes after the cancellation re-check
FulfillNoFulfillment(h) ==
    /\ h \in handlers
    /\ h.kind = "fulfill"
    /\ h.pc = "no-fulfillment"
    /\ LET sdmGoal == h.goal
           g == sdmGoal.uniqueName
       IN /\ UpdateGoal(g, NoFulfillmentUpdate(sdmGoal),
                        busRequested, busSuccess, busCompleted)
          /\ Step("fulfill", "no-fulfillment", g, sdmGoal.state, "failure", "Success",
                  verifyGoal(sdmGoal, GoalSigning(signing)))
          /\ handlers' = handlers \ {h}
    /\ UNCHANGED <<config, tools, sg, nz, cancel, disturbed, runs, statuses,
                   setRecord>>

\* goalScheduler.schedule(): the scheduler takes the goal and answers with a
\* result; the handler is suspended until then and has written nothing yet
FulfillSchedule(h) ==
    /\ h \in handlers
    /\ h.kind = "fulfill"
    /\ h.pc = "schedule"
    /\ \E result \in ScheduleResults :
         LET sdmGoal == h.goal
             g == sdmGoal.uniqueName
         IN /\ NoUpdate(busRequested, busSuccess, busCompleted)
            /\ runs' = [runs EXCEPT ![g] = @ + 1]
            /\ StepOfInvocation("scheduling", g, sdmGoal.state, None, None,
                                verifyGoal(sdmGoal, GoalSigning(signing)), h.via,
                                "open", result)
            /\ handlers' = (handlers \ {h}) \cup
                  {[h EXCEPT !.pc = "scheduled", !.result = result]}
    /\ UNCHANGED <<config, tools, sg, nz, cancel, disturbed, statuses, setRecord>>

\* the update for the result of schedule(); the handler returns the result
\* with code 0
FulfillScheduled(h) ==
    /\ h \in handlers
    /\ h.kind = "fulfill"
    /\ h.pc = "scheduled"
    /\ LET result == h.result
           sdmGoal == h.goal
           g == sdmGoal.uniqueName
           upd == ScheduleUpdate(result, sdmGoal)
       IN   /\ UpdateGoal(g, upd, busRequested, busSuccess, busCompleted)
            /\ StepOfInvocation(IF ScheduleFailed(result) THEN "schedule-failed"
                                ELSE "schedule",
                                g, sdmGoal.state, upd.state, Outcome(HandlerResult(result)),
                                verifyGoal(sdmGoal, GoalSigning(signing)), h.via,
                                IF ScheduleFailed(result) THEN "closed-after-publish"
                                ELSE "open",
                                result)
            /\ handlers' = handlers \ {h}
    /\ UNCHANGED <<config, tools, sg, nz, cancel, disturbed, runs, statuses,
                   setRecord>>

\* executeGoal begins: the goal is marked in_process and the executor invoked
FulfillExecute(h) ==
    /\ h \in handlers
    /\ h.kind = "fulfill"
    /\ h.pc = "execute"
    /\ LET sdmGoal == h.goal
           g == sdmGoal.uniqueName
       IN /\ UpdateGoal(g, [state |-> "in_process",
                            description |-> <<"Working: ", sdmGoal.name>>],
                        busRequested, busSuccess, busCompleted)
          /\ runs' = [runs EXCEPT ![g] = @ + 1]
          /\ StepOfInvocation("execute", g, sdmGoal.state, "in_process", None,
                              verifyGoal(sdmGoal, GoalSigning(signing)), h.via, "open", None)
          /\ handlers' = (handlers \ {h}) \cup {[h EXCEPT !.pc = "running"]}
    /\ UNCHANGED <<config, tools, sg, nz, cancel, disturbed, statuses, setRecord>>

\* executeGoal returns a result: its state is recorded and the handler returns
\* the result with code 0
FulfillReturn(h) ==
    /\ h \in handlers
    /\ h.kind = "fulfill"
    /\ h.pc = "running"
    /\ \E result \in ExecuteResults :
         LET sdmGoal == h.goal
             g == sdmGoal.uniqueName
             upd == ExecuteUpdate(result, sdmGoal)
         IN /\ UpdateGoal(g, upd, busRequested, busSuccess, busCompleted)
            /\ StepOfInvocation("return", g, "in_process", upd.state,
                                Outcome(HandlerResult(result)),
                                verifyGoal(sdmGoal, GoalSigning(signing)), h.via,
                                IF closesProgressLog(result) THEN "closed-after-publish"
                                ELSE "open",
                                result)
            /\ handlers' = handlers \ {h}
    /\ UNCHANGED <<config, tools, sg, nz, cancel, disturbed, runs, statuses,
                   setRecord>>

\* executeGoal throws: the catch block writes the result to the progress log,
\* closes it and rethrows
FulfillThrow(h) ==
    /\ h \in handlers
    /\ h.kind = "fulfill"
    /\ h.pc = "running"
    /\ NoUpdate(busRequested, busSuccess, busCompleted)
    /\ StepOfInvocation("throw", h.goal.uniqueName, "in_process", None, "Error",
                        verifyGoal(h.goal, GoalSigning(signing)), h.via, "closed", None)
    /\ handlers' = handlers \ {h}
    /\ UNCHANGED <<config, tools, sg, nz, cancel, disturbed, runs, statuses,
                   setRecord>>

(***************************************************************************)
(* RequestDownstreamGoalsOnGoalSuccess.handle                              *)
(***************************************************************************)
\* goal key equality: environment and uniqueName
mapKeyToGoal(keys, keyToFind) ==
    \E i \in 1..Len(keys) :
        /\ keys[i].environment = keyToFind.environment
        /\ keys[i].uniqueName = keyToFind.uniqueName

isDirectlyDependentOn(successfulGoal, goal) ==
    IF Len(goal.preConditions) = 0 THEN FALSE
    ELSE mapKeyToGoal(goal.preConditions, successfulGoal)

\* a variant that expects only goals this SDM fulfills itself
expectSdmAfterRequest(dependentGoal, name) ==
    dependentGoal.fulfillment.method = "sdm"

expectToBeFulfilledAfterRequest(dependentGoal, name) ==
    CASE dependentGoal.fulfillment.method = "sdm" -> TRUE
      [] dependentGoal.fulfillment.method = "side-effect" ->
             dependentGoal.fulfillment.name # name
      [] dependentGoal.fulfillment.method = "other" -> TRUE
      [] OTHER -> FALSE

\* a variant that gives a failed goal no second chance
shouldBePlannedOrSkippedOnly(dependentGoal) ==
    \/ dependentGoal.state = "planned"
    \/ dependentGoal.state = "skipped"

shouldBePlannedOrSkipped(dependentGoal) ==
    \/ dependentGoal.state = "planned"
    \/ dependentGoal.state = "skipped"
    \/ dependentGoal.state = "failure" /\ dependentGoal.retryFeasible = "true"

\* fetchGoalsFromPush: the goals the success event carries, in the states
\* they had when the event was raised
fetchGoalsFromPush(e) ==
    [d \in Goals |-> GoalMessage(plan, d, e.snap[d], <<>>)]

\* every precondition is matched by a goal of the set in state success
preconditionsAreMet(goal, goalsForCommit) ==
    \A i \in 1..Len(goal.preConditions) :
        \E d \in DOMAIN goalsForCommit :
            /\ goalsForCommit[d].environment = goal.preConditions[i].environment
            /\ goalsForCommit[d].uniqueName = goal.preConditions[i].uniqueName
            /\ goalsForCommit[d].state = "success"

goalsToRequest(e) ==
    LET goals == fetchGoalsFromPush(e)
    IN {d \in Goals :
           /\ isDirectlyDependentOn(e.goal, goals[d])
           /\ expectToBeFulfilledAfterRequest(goals[d], Me)
           /\ shouldBePlannedOrSkipped(goals[d])
           /\ preconditionsAreMet(goals[d], goals)}

\* the update of a goal that is now ready
RequestUpdate(sdmG) ==
    IF sdmG.preApprovalRequired = "true"
    THEN [state |-> "waiting_for_pre_approval",
          description |-> <<"Start required: ", sdmG.name>>]
    ELSE [state |-> "requested", description |-> <<"Ready: ", sdmG.name>>]

\* Delivery of a success event up to the first suspension after the goals to
\* request are known: relevance, signature verification, the four filters
EngineStart(e) ==
    /\ e \in busSuccess
    /\ Cardinality(handlers) < MaxInFlight
    /\ \E again \in BOOLEAN :
         /\ Deliver(again)
         /\ LET left == Remaining(busSuccess, e, again)
                sdmGoal == e.goal
                g == sdmGoal.uniqueName
                v == verifyGoal(sdmGoal, GoalSigning(signing))
            IN IF ~isGoalRelevant(sdmGoal)
               THEN /\ NoUpdate(busRequested, left, busCompleted)
                    /\ Step("engine", "ignore", g, sdmGoal.state, None, "Success", v)
                    /\ UNCHANGED handlers
               ELSE IF v # "ok"
               THEN /\ UpdateGoal(g, rejectGoalUpdate(v, sdmGoal),
                                  busRequested, left, busCompleted)
                    /\ Step("engine", "reject", g, sdmGoal.state, "failure", "Error", v)
                    /\ UNCHANGED handlers
               ELSE IF goalsToRequest(e) = {}
               THEN /\ NoUpdate(busRequested, left, busCompleted)
                    /\ Step("engine", "nothing", g, sdmGoal.state, None, "Success", v)
                    /\ UNCHANGED handlers
               ELSE /\ NoUpdate(busRequested, left, busCompleted)
                    /\ Step("engine", "start", g, sdmGoal.state, None, None, v)
                    /\ handlers' = handlers \cup
                           {[id |-> NewId, kind |-> "engine", goal |-> sdmGoal,
                             snap |-> e.snap, todo |-> goalsToRequest(e),
                             ready |-> goalsToRequest(e), older |-> FALSE]}
    /\ UNCHANGED <<config, tools, sg, nz, cancel, runs, statuses, setRecord>>

\* mapKeyToGoal of the copy of the handler kept in FulfillGoalOnRequested.ts:
\* environment and name; the name of a key is that of the goal it was made of
olderMapKeyToGoal(keys, keyToFind) ==
    \E i \in 1..Len(keys) :
        /\ keys[i].environment = keyToFind.environment
        /\ plan[keys[i].uniqueName].name = keyToFind.name

olderIsDirectlyDependentOn(successfulGoal, goal) ==
    IF Len(goal.preConditions) = 0 THEN FALSE
    ELSE olderMapKeyToGoal(goal.preConditions, successfulGoal)

\* fetchGoalsForCommit: the goals of the set as the store has them
fetchGoalsForCommit == [d \in Goals |-> GoalMessage(plan, d, store[d].state, <<>>)]

\* the filters of that copy on the fetched goals
olderGoalsToRequest(sdmGoal) ==
    LET goals == fetchGoalsForCommit
    IN {d \in Goals :
           /\ olderIsDirectlyDependentOn(sdmGoal, goals[d])
           /\ expectToBeFulfilledAfterRequest(goals[d], Me)
           /\ shouldBePlannedOrSkipped(goals[d])
           /\ preconditionsAreMet(goals[d], goals)}

\* the update that copy writes for a goal that is ready
OlderRequestUpdate(sdmG) ==
    [state |-> "requested", description |-> <<"Ready to ", sdmG.name>>]

\* Delivery of a success event to that copy: relevance, then the goals of the
\* set are fetched and filtered; no signature is verified
OlderEngineStart(e) ==
    /\ e \in busSuccess
    /\ Cardinality(handlers) < MaxInFlight
    /\ \E again \in BOOLEAN :
         /\ Deliver(again)
         /\ LET left == Remaining(busSuccess, e, again)
                sdmGoal == e.goal
                g == sdmGoal.uniqueName
                v == verifyGoal(sdmGoal, GoalSigning(signing))
            IN /\ NoUpdate(busRequested, left, busCompleted)
               /\ IF ~isGoalRelevant(sdmGoal)
                  THEN /\ Step("engine", "ignore", g, sdmGoal.state, None, "Success", v)
                       /\ UNCHANGED handlers
                  ELSE IF olderGoalsToRequest(sdmGoal) = {}
                  THEN /\ Step("engine", "nothing", g, sdmGoal.state, None, "Success", v)
                       /\ UNCHANGED handlers
                  ELSE /\ Step("engine", "start", g, sdmGoal.state, None, None, v)
                       /\ handlers' = handlers \cup
                              {[id |-> NewId, kind |-> "engine", goal |-> sdmGoal,
                                snap |-> StateOf(store),
                                todo |-> olderGoalsToRequest(sdmGoal),
                                ready |-> olderGoalsToRequest(sdmGoal), older |-> TRUE]}
    /\ UNCHANGED <<config, tools, sg, nz, cancel, runs, statuses, setRecord>>

\* One of the concurrent updates of Promise.all: the dependent goal d is
\* written as the handler found it in the goals of the event
EngineRequest(h, d) ==
    /\ h \in handlers
    /\ h.kind = "engine"
    /\ d \in h.todo
    /\ LET sdmG == GoalMessage(plan, d, h.snap[d], <<>>)
           upd == IF h.older THEN OlderRequestUpdate(sdmG) ELSE RequestUpdate(sdmG)
       IN /\ UpdateGoal(d, upd, busRequested, busSuccess, busCompleted)
          /\ Step("engine", "request", d, h.snap[d], upd.state,
                  IF h.todo = {d} THEN "Success" ELSE None,
                  verifyGoal(h.goal, GoalSigning(signing)))
    /\ handlers' = IF h.todo = {d}
                   THEN handlers \ {h}
                   ELSE (handlers \ {h}) \cup {[h EXCEPT !.todo = @ \ {d}]}
    /\ UNCHANGED <<config, tools, sg, nz, cancel, disturbed, runs, statuses,
                   setRecord>>

(***************************************************************************)
(* cancelGoalSet                                                           *)
(***************************************************************************)
\* a variant that cancels failed goals too
CancelExemptWithoutFailure == {"success", "canceled", "stopped", "skipped"}

\* a variant that cancels a canceled goal again
CancelExemptWithoutCanceled == {"success", "stopped", "skipped", "failure"}

\* the states cancelGoalSet does not touch
CancelExempt == {"success", "canceled", "stopped", "skipped", "failure"}

\* the goal set and its goals are fetched
\* cancelGoalSet begins: the goals of the set as fetchGoalsForCommit returns them
CancelFetched ==
    /\ cancel' = [pc |-> "loop", snap |-> StateOf(store), next |-> 1,
                  run |-> cancel.run + 1, left |-> cancel.left, prev |-> cancel.left]
    /\ Step("cancel", "fetch", GoalOrder[1], None, None, None, "ok")
    /\ UNCHANGED <<config, tools, sg, nz, store, busRequested, busSuccess, busCompleted, handlers,
                   reqCount, runs, statuses, setRecord>>

\* a cancel command arrives
CancelFetch ==
    /\ cancel.pc \in {"idle", "done"}
    /\ disturbed < MaxDisturbances
    /\ disturbed' = disturbed + 1
    /\ CancelFetched

\* the cancel command is given with the id of the set, also of a set it has
\* canceled before
CancelSetById ==
    /\ cancel.pc = "done"
    /\ cancel.run < MaxCancelRuns
    /\ disturbed' = disturbed
    /\ CancelFetched

\* one turn of the loop over the fetched goals
CancelGoal ==
    /\ cancel.pc = "loop"
    /\ cancel.next <= Len(GoalOrder)
    /\ LET g == GoalOrder[cancel.next]
       IN IF cancel.snap[g] \notin CancelExempt
          THEN /\ UpdateGoal(g, [state |-> "canceled",
                                 description |-> <<"Canceled ", plan[g].name>>],
                             busRequested, busSuccess, busCompleted)
               /\ Step("cancel", "cancel", g, cancel.snap[g], "canceled", None, "ok")
               /\ cancel' = [cancel EXCEPT !.next = @ + 1, !.left[g] = "canceled"]
          ELSE /\ NoUpdate(busRequested, busSuccess, busCompleted)
               /\ Step("cancel", "skip", g, cancel.snap[g], None, None, "ok")
               /\ cancel' = [cancel EXCEPT !.next = @ + 1, !.left[g] = cancel.snap[g]]
    /\ UNCHANGED <<config, tools, sg, nz, handlers, disturbed, runs, statuses,
                   setRecord>>

\* after the loop the goal-set record is sent with state canceled
CancelFinish ==
    /\ cancel.pc = "loop"
    /\ cancel.next > Len(GoalOrder)
    /\ cancel' = [cancel EXCEPT !.pc = "done"]
    /\ setRecord' = "canceled"
    /\ Step("cancel", "finish", GoalOrder[1], None, None, "Success", "ok")
    /\ UNCHANGED <<config, tools, sg, nz, store, busRequested, busSuccess, busCompleted, handlers,
                   disturbed, reqCount, runs, statuses>>

(***************************************************************************)
(* RespondOnGoalCompletion.handle with setGitHubStatusOnGoalCompletion     *)
(***************************************************************************)
\* a variant that is content with one successful goal
anySuccessful(goals) == \E g \in DOMAIN goals : goals[g] = "success"

allSuccessful(goals) == ~ \E g \in DOMAIN goals : goals[g] # "success"

\* the status the listener publishes for a completed goal and the fetched set
GitHubStatusOnGoalCompletion(completedGoal, allGoals) ==
    IF completedGoal.state = "failure" THEN {"failure"}
    ELSE IF allSuccessful(allGoals) THEN {"success"}
    ELSE {}

\* Delivery of a completed-goal event: relevance, then fetchGoalsForCommit
\* answers with the goals of the set as the store has them
ReactorHandle(e) ==
    /\ e \in busCompleted
    /\ Cardinality(handlers) < MaxInFlight
    /\ Cardinality({h \in handlers : h.kind = "reactor"}) < MaxListening
    /\ \E again \in BOOLEAN :
         /\ Deliver(again)
         /\ busCompleted' = Remaining(busCompleted, e, again)
    /\ handlers' = IF isGoalRelevant(e)
                   THEN handlers \cup {[id |-> NewId, kind |-> "reactor", goal |-> e,
                                        allGoals |-> StateOf(store)]}
                   ELSE handlers
    /\ StepOfReactor(IF isGoalRelevant(e) THEN "fetch" ELSE "ignore", e.uniqueName,
                     e.state, {}, IF isGoalRelevant(e) THEN None ELSE "Success")
    /\ UNCHANGED <<config, tools, sg, nz, store, busRequested, busSuccess, cancel,
                   reqCount, runs, statuses, setRecord>>

\* the goal completion listeners run on the fetched goals: createStatus
ReactorListen(h) ==
    /\ h \in handlers
    /\ h.kind = "reactor"
    /\ statuses' = statuses \cup GitHubStatusOnGoalCompletion(h.goal, h.allGoals)
    /\ StepOfReactor("listen", h.goal.uniqueName, h.goal.state,
                     GitHubStatusOnGoalCompletion(h.goal, h.allGoals), "Success")
    /\ handlers' = handlers \ {h}
    /\ UNCHANGED <<config, tools, sg, nz, store, busRequested, busSuccess, busCompleted,
                   cancel, disturbed, reqCount, runs, setRecord>>

(***************************************************************************)
(* The transport between sender and receiver: a goal event may be altered  *)
(* or lose its signature before it is delivered.                           *)
(***************************************************************************)
Tampering(goal) ==
    {[goal EXCEPT !.sha = "sha-evil"], [goal EXCEPT !.signature = Absent]}

TamperRequested(e) ==
    /\ signing
    /\ disturbed < MaxDisturbances
    /\ e \in busRequested
    /\ \E t \in Tampering(e) : busRequested' = (busRequested \ {e}) \cup {t}
    /\ disturbed' = disturbed + 1
    /\ Step("transport", "tamper", e.uniqueName, e.state, None, None, "ok")
    /\ UNCHANGED <<config, tools, sg, nz, store, busSuccess, busCompleted, handlers, cancel,
                   reqCount, runs, statuses, setRecord>>

TamperSuccess(e) ==
    /\ signing
    /\ disturbed < MaxDisturbances
    /\ e \in busSuccess
    /\ \E t \in Tampering(e.goal) :
           busSuccess' = (busSuccess \ {e}) \cup {[e EXCEPT !.goal = t]}
    /\ disturbed' = disturbed + 1
    /\ Step("transport", "tamper", e.goal.uniqueName, e.goal.state, None, None, "ok")
    /\ UNCHANGED <<config, tools, sg, nz, store, busRequested, busCompleted, handlers, cancel,
                   reqCount, runs, statuses, setRecord>>

Next ==
    \/ \E e \in busRequested : FulfillStart(e)
    \/ \E h \in handlers : FulfillAdmit(h)
    \/ \E h \in handlers : FulfillNoFulfillment(h)
    \/ \E h \in handlers : FulfillSchedule(h)
    \/ \E h \in handlers : FulfillScheduled(h)
    \/ \E h \in handlers : FulfillExecute(h)
    \/ \E h \in handlers : FulfillReturn(h)
    \/ \E h \in handlers : FulfillThrow(h)
    \/ \E e \in busSuccess : EngineStart(e)
    \/ \E h \in handlers : \E d \in Goals : EngineRequest(h, d)
    \/ CancelFetch
    \/ CancelGoal
    \/ CancelFinish
    \/ \E e \in busCompleted : ReactorHandle(e)
    \/ \E h \in handlers : ReactorListen(h)
    \/ \E e \in busRequested : TamperRequested(e)
    \/ \E e \in busSuccess : TamperSuccess(e)

Spec == Init /\ [][Next]_vars

(***************************************************************************)
(* The same handlers with the copy of RequestDownstreamGoalsOnGoalSuccess  *)
(* that FulfillGoalOnRequested.ts keeps subscribed to the success events.  *)
(***************************************************************************)
OlderScenarios ==
    {Scenario(PlanChain, FALSE, NoScheduler), Scenario(PlanChain, TRUE, NoScheduler)}

\* every event is delivered once
OlderInit ==
    /\ \E sc \in OlderScenarios : InitScenarioAfter(sc, MaxDisturbances)
    /\ sg = SgIdle
    /\ nz = NzIdle
    /\ ToolsIdle

OlderNext ==
    \/ \E e \in busRequested : FulfillStart(e)
    \/ \E h \in handlers : FulfillAdmit(h)
    \/ \E h \in handlers : FulfillNoFulfillment(h)
    \/ \E h \in handlers : FulfillSchedule(h)
    \/ \E h \in handlers : FulfillScheduled(h)
    \/ \E h \in handlers : FulfillExecute(h)
    \/ \E h \in handlers : FulfillReturn(h)
    \/ \E h \in handlers : FulfillThrow(h)
    \/ \E e \in busSuccess : OlderEngineStart(e)
    \/ \E h \in handlers : \E d \in Goals : EngineRequest(h, d)
    \/ \E e \in busCompleted : ReactorHandle(e)
    \/ \E h \in handlers : ReactorListen(h)

OlderSpec == OlderInit /\ [][OlderNext]_vars

(***************************************************************************)
(* The handlers on a goal set that nobody cancels and whose events arrive  *)
(* as sent: the bus delivers every event and a handler that was started    *)
(* runs on, so the system does not stop while an event is undelivered or a *)
(* handler unfinished.                                                     *)
(***************************************************************************)
LiveScenarios ==
    {Scenario(PlanJoin, FALSE, ThreeSchedulers), Scenario(PlanMethods, TRUE, NoScheduler),
     Scenario(PlanForeign, FALSE, NoScheduler), Scenario(PlanChain, TRUE, OneScheduler(K8s))}

\* every event is delivered once: the repeated deliveries are spent
LiveInit ==
    /\ \E sc \in LiveScenarios : InitScenarioAfter(sc, MaxDisturbances)
    /\ sg = SgIdle
    /\ nz = NzIdle
    /\ ToolsIdle

LiveNext ==
    \/ \E e \in busRequested : FulfillStart(e)
    \/ \E h \in handlers : FulfillAdmit(h)
    \/ \E h \in handlers : FulfillNoFulfillment(h)
    \/ \E h \in handlers : FulfillSchedule(h)
    \/ \E h \in handlers : FulfillScheduled(h)
    \/ \E h \in handlers : FulfillExecute(h)
    \/ \E h \in handlers : FulfillReturn(h)
    \/ \E h \in handlers : FulfillThrow(h)
    \/ \E e \in busSuccess : EngineStart(e)
    \/ \E h \in handlers : \E d \in Goals : EngineRequest(h, d)
    \/ \E e \in busCompleted : ReactorHandle(e)
    \/ \E h \in handlers : ReactorListen(h)

LiveSpec == LiveInit /\ [][LiveNext]_vars /\ WF_vars(LiveNext)

(***************************************************************************)
(* cancelGoalSet on its own: a goal set in any states is canceled, and     *)
(* canceled again, while another handler may update a goal in between.     *)
(***************************************************************************)
\* the states a goal of the set may be found in when the command arrives
FoundStates == {"planned", "requested", "in_process", "waiting_for_approval",
                "success", "failure", "skipped", "canceled"}

\* the states the dispatcher and the state engine write
WrittenStates == {"requested", "in_process", "success"}

\* updateGoal of another handler, between the steps of cancelGoalSet
OtherUpdate(g, state) ==
    /\ disturbed < MaxDisturbances
    /\ disturbed' = disturbed + 1
    /\ cancel.pc # "idle"
    /\ store[g].state # state
    /\ store' = [store EXCEPT ![g] = [state |-> state,
                                      description |-> <<"Working: ", plan[g].name>>]]
    /\ Step("other", "update", g, store[g].state, state, None, "ok")
    /\ UNCHANGED <<config, tools, sg, nz, busRequested, busSuccess, busCompleted, handlers,
                   cancel, reqCount, runs, statuses, setRecord>>

CancelInit ==
    /\ InitScenario(Scenario(PlanChain, FALSE, NoScheduler))
    /\ sg = SgIdle
    /\ nz = NzIdle
    /\ ToolsIdle

\* the set as the command finds it
CancelFound ==
    /\ cancel.pc = "idle"
    /\ cancel.run = 0
    /\ \E found \in [Goals -> FoundStates] :
          /\ store' = [g \in Goals |->
                          [state |-> found[g], description |-> <<"Planned: ", plan[g].name>>]]
          /\ cancel' = [pc |-> "done", snap |-> found, next |-> 1, run |-> 0,
                        left |-> cancel.left, prev |-> cancel.prev]
    /\ Step("other", "found", GoalOrder[1], None, None, None, "ok")
    /\ UNCHANGED <<config, tools, sg, nz, busRequested, busSuccess, busCompleted, handlers,
                   disturbed, reqCount, runs, statuses, setRecord>>

CancelNext ==
    \/ CancelFound
    \/ CancelSetById
    \/ CancelGoal
    \/ CancelFinish
    \/ \E g \in Goals, state \in WrittenStates : OtherUpdate(g, state)

CancelSpec == CancelInit /\ [][CancelNext]_vars

(***************************************************************************)
(* list goal sets / cancel goal sets (cancelGoals.ts)                      *)
(***************************************************************************)
\* the goal sets of the store, in the order in which a query lists them
SetIds == <<"s1", "s2", "s3">>

\* variables.fetch of pendingGoalSets: the page of a query (50 in the code)
Fetch == 2

\* a goal-set record with the states of its goals; `sent` is the state of a
\* record that cancelGoalSet has sent and the store has not yet ingested
GoalSetOf(registration, state, goals) ==
    [registration |-> registration, state |-> state, goals |-> goals, sent |-> None]

SetKinds ==
    {GoalSetOf(Me, "pending", <<"in_process", "planned">>),
     GoalSetOf(Me, "pending", <<"success", "requested">>),
     GoalSetOf(Other, "pending", <<"requested", "planned">>),
     GoalSetOf(Me, "success", <<"success", "success">>)}

\* the query InProcessSdmGoalSets: the pending sets of a registration
InProcessSdmGoalSets(sets, registration) ==
    SelectSeq(SetIds, LAMBDA id : /\ sets[id].registration = registration
                                  /\ sets[id].state = "pending")

\* pendingGoalSets: the first page of the pending sets of this registration
pendingGoalSets(sets, name) ==
    LET all == InProcessSdmGoalSets(sets, name)
    IN SubSeq(all, 1, IF Len(all) < Fetch THEN Len(all) ELSE Fetch)

\* a variant that sends the goal-set record as it was found
newGoalSetAsFound(gs) == gs

\* newGoalSet of cancelGoalSet, sent to the store: the record found with
\* state canceled
newGoalSet(gs) == [gs EXCEPT !.sent = "canceled"]

\* how often a set is among the attachments
Rendered(id) == Cardinality({i \in 1..Len(cmd.attachments) : cmd.attachments[i] = id})

\* listPendingGoalSetsCommand: the first query
ListStart ==
    /\ cmd.kind = "list"
    /\ cmd.pc = "start"
    /\ cmd' = [cmd EXCEPT !.pc = "loop", !.pgs = pendingGoalSets(goalSets, Me)]
    /\ UNCHANGED <<core, sg, nz, planning, rej, pack, mapping, clean, deploy, request, dep, goalSets, worker, kube, task>>

\* a turn of the while loop: an attachment for every set of the page, then
\* the query again
ListPage ==
    /\ cmd.kind = "list"
    /\ cmd.pc = "loop"
    /\ Len(cmd.pgs) > 0
    /\ Len(cmd.attachments) + Len(cmd.pgs) <= MaxAttachments
    /\ cmd' = [cmd EXCEPT !.attachments = cmd.attachments \o cmd.pgs,
                          !.pgs = pendingGoalSets(goalSets, Me)]
    /\ UNCHANGED <<core, sg, nz, planning, rej, pack, mapping, clean, deploy, request, dep, goalSets, worker, kube, task>>

\* the loop has ended: respond with the attachments
ListRespond ==
    /\ cmd.kind = "list"
    /\ cmd.pc = "loop"
    /\ Len(cmd.pgs) = 0
    /\ cmd' = [cmd EXCEPT !.pc = "done", !.responded = TRUE]
    /\ UNCHANGED <<core, sg, nz, planning, rej, pack, mapping, clean, deploy, request, dep, goalSets, worker, kube, task>>

\* cancelGoalSetsCommand without goalSetId: the first query
CancelAllStart ==
    /\ cmd.kind = "cancel"
    /\ cmd.pc = "start"
    /\ cmd' = [cmd EXCEPT !.pc = "loop", !.pgs = pendingGoalSets(goalSets, Me), !.next = 1]
    /\ UNCHANGED <<core, sg, nz, planning, rej, pack, mapping, clean, deploy, request, dep, goalSets, worker, kube, task>>

\* for (const pg of pgs) await cancelGoalSet(pg.goalSetId, ...): the query
\* SdmGoalSetForId of cancelGoalSet is answered
CancelAllSet ==
    /\ cmd.kind = "cancel"
    /\ cmd.pc = "loop"
    /\ cmd.next <= Len(cmd.pgs)
    /\ cmd' = [cmd EXCEPT !.pc = "queried", !.goalSetId = cmd.pgs[cmd.next]]
    /\ UNCHANGED <<core, sg, nz, planning, rej, pack, mapping, clean, deploy, request, dep, goalSets, worker, kube, task>>

\* cancelGoalSet: fetchGoalsForCommit gives the goals of the set as they are
CancelSetFetch ==
    /\ cmd.kind = "cancel"
    /\ cmd.pc = "queried"
    /\ cmd' = [cmd EXCEPT !.pc = "goals", !.goals = goalSets[cmd.goalSetId].goals,
                          !.goal = 1]
    /\ UNCHANGED <<core, sg, nz, planning, rej, pack, mapping, clean, deploy, request, dep, goalSets, worker, kube, task>>

\* cancelGoalSet: one turn of the loop over the fetched goals; a goal that is
\* not exempt is updated to canceled
CancelSetGoal ==
    /\ cmd.kind = "cancel"
    /\ cmd.pc = "goals"
    /\ cmd.goal <= Len(cmd.goals)
    /\ goalSets' = IF cmd.goals[cmd.goal] \notin CancelExempt
                   THEN [goalSets EXCEPT ![cmd.goalSetId].goals[cmd.goal] = "canceled"]
                   ELSE goalSets
    /\ cmd' = [cmd EXCEPT !.goal = @ + 1]
    /\ UNCHANGED <<core, sg, nz, planning, rej, pack, mapping, clean, deploy, request, dep, worker, kube, task>>

\* cancelGoalSet: after the loop the goal-set record is sent
CancelSetSend ==
    /\ cmd.kind = "cancel"
    /\ cmd.pc = "goals"
    /\ cmd.goal > Len(cmd.goals)
    /\ goalSets' = [goalSets EXCEPT ![cmd.goalSetId] = newGoalSet(@)]
    /\ cmd' = [cmd EXCEPT !.pc = "sent"]
    /\ UNCHANGED <<core, sg, nz, planning, rej, pack, mapping, clean, deploy, request, dep, worker, kube, task>>

\* cancelGoalSet: the response for the set; the loop over the page goes on
CancelSetRespond ==
    /\ cmd.kind = "cancel"
    /\ cmd.pc = "sent"
    /\ cmd' = [cmd EXCEPT !.pc = "loop", !.next = @ + 1]
    /\ UNCHANGED <<core, sg, nz, planning, rej, pack, mapping, clean, deploy, request, dep, goalSets, worker, kube, task>>

\* the page is done: the query again
CancelAllQuery ==
    /\ cmd.kind = "cancel"
    /\ cmd.pc = "loop"
    /\ Len(cmd.pgs) > 0
    /\ cmd.next > Len(cmd.pgs)
    /\ cmd' = [cmd EXCEPT !.pgs = pendingGoalSets(goalSets, Me), !.next = 1]
    /\ UNCHANGED <<core, sg, nz, planning, rej, pack, mapping, clean, deploy, request, dep, goalSets, worker, kube, task>>

\* the loop has ended: respond
CancelAllRespond ==
    /\ cmd.kind = "cancel"
    /\ cmd.pc = "loop"
    /\ Len(cmd.pgs) = 0
    /\ cmd' = [cmd EXCEPT !.pc = "done", !.responded = TRUE]
    /\ UNCHANGED <<core, sg, nz, planning, rej, pack, mapping, clean, deploy, request, dep, goalSets, worker, kube, task>>

\* the store ingests a goal-set record that was sent
Ingest(id) ==
    /\ goalSets[id].sent # None
    /\ goalSets' = [goalSets EXCEPT ![id] = [@ EXCEPT !.state = goalSets[id].sent,
                                                      !.sent = None]]
    /\ UNCHANGED <<core, sg, nz, planning, rej, pack, mapping, clean, deploy, request, dep, cmd, worker, kube, task>>

CmdInit ==
    /\ InitScenario(Scenario(PlanChain, FALSE, NoScheduler))
    /\ planning = PlanningIdle
    /\ rej = RejIdle
    /\ pack = PackIdle
    /\ mapping = MappingIdle
    /\ clean = CleanIdle
    /\ deploy = DeployIdle
    /\ sg = SgIdle
    /\ nz = NzIdle
    /\ worker = WorkerIdle
    /\ kube = KubeIdle
    /\ task = TaskIdle
    /\ request = RequestIdle
    /\ dep = DepIdle
    /\ goalSets \in [{SetIds[i] : i \in 1..Len(SetIds)} -> SetKinds]
    /\ \E kind \in {"list", "cancel"} :
          cmd = [CmdIdle EXCEPT !.kind = kind, !.pc = "start",
                                !.pendingAtStart =
                                    {SetIds[i] : i \in {j \in 1..Len(SetIds) :
                                        /\ goalSets[SetIds[j]].registration = Me
                                        /\ goalSets[SetIds[j]].state = "pending"}}]

CancelAllStep ==
    \/ CancelAllStart
    \/ CancelAllSet
    \/ CancelSetFetch
    \/ CancelSetGoal
    \/ CancelSetSend
    \/ CancelSetRespond
    \/ CancelAllQuery
    \/ CancelAllRespond

CmdNext ==
    \/ ListStart
    \/ ListPage
    \/ ListRespond
    \/ CancelAllStart
    \/ CancelAllSet
    \/ CancelSetFetch
    \/ CancelSetGoal
    \/ CancelSetSend
    \/ CancelSetRespond
    \/ CancelAllQuery
    \/ CancelAllRespond
    \/ \E i \in 1..Len(SetIds) : Ingest(SetIds[i])

CmdSpec == CmdInit /\ [][CmdNext]_vars

\* the command's listener runs on, and the store ingests what was sent
CmdFairSpec ==
    /\ CmdInit
    /\ [][CmdNext]_vars
    /\ WF_vars(CancelAllStep)
    /\ \A i \in 1..Len(SetIds) : WF_vars(Ingest(SetIds[i]))

(***************************************************************************)
(* The isolated worker (GoalExecutionAutomationEventListener)              *)
(***************************************************************************)
\* what the query for the goal (SdmGoalsByGoalSetIdAndUniqueName, SdmGoalById
\* in the older listener) may give: the goal event as the store has it when
\* the goal set is the one stored, no goal event, or a rejection
QueryResults(goalSetId, uniqueName) ==
    {[rejected |-> FALSE, SdmGoal |-> <<>>], [rejected |-> TRUE, SdmGoal |-> <<>>]}
    \cup (IF goalSetId = GoalSetId
          THEN {[rejected |-> FALSE,
                 SdmGoal |-> <<Outgoing(uniqueName, store[uniqueName])>>]}
          ELSE {})

\* what the automation client makes of a handler that threw: a failure
\* result, or a rejection of the results
ProcessResults(outcome) ==
    IF outcome = "Success" THEN {"Success"} ELSE {"Failure", "rejected"}

\* startupSuccessful and registrationSuccessful up to the query: nothing in a
\* process that is not the master; a rejected query ends the listener with
\* that rejection
WorkerStartup ==
    /\ worker.pc = "started"
    /\ IF ~worker.isMaster
       THEN worker' = [worker EXCEPT !.pc = "returned"]
       ELSE \E goal \in QueryResults(worker.goalSetId, worker.uniqueName) :
               worker' = IF goal.rejected
                         THEN [worker EXCEPT !.pc = "rejected"]
                         ELSE [worker EXCEPT !.pc = "fetched", !.data = goal.SdmGoal]
    /\ UNCHANGED <<core, sg, nz, planning, rej, pack, mapping, clean, deploy, request, dep, goalSets, cmd, kube, task>>

\* processEvent(event, ...): FulfillGoalOnRequested.handle is run on the goal
\* event fetched; event.data.SdmGoal[0] of an empty answer is undefined and
\* the handler throws on it
WorkerProcess ==
    /\ worker.pc = "fetched"
    /\ IF Len(worker.data) = 0
       THEN /\ worker' = [worker EXCEPT !.pc = "handled", !.outcome = "Error",
                                        !.processed = Append(worker.processed, worker.data)]
            /\ UNCHANGED core
       ELSE /\ worker' = [worker EXCEPT !.pc = "processing",
                                        !.processed = Append(worker.processed, worker.data)]
            /\ FulfillBegin(worker.data[1], busRequested)
            /\ UNCHANGED <<config, cancel, disturbed, runs, statuses, setRecord>>
    /\ UNCHANGED <<sg, nz, planning, rej, pack, mapping, clean, deploy, request, dep, goalSets, cmd, kube, task>>

\* the handler has ended: its outcome is what processEvent has to report
WorkerHandled ==
    /\ worker.pc = "processing"
    /\ handlers = {}
    /\ worker' = [worker EXCEPT !.pc = "handled", !.outcome = last.outcome]
    /\ UNCHANGED <<core, sg, nz, planning, rej, pack, mapping, clean, deploy, request, dep, goalSets, cmd, kube, task>>

\* the results of processEvent settle.  startupSuccessful awaits them inside
\* try and catches a rejection; the callback of registrationSuccessful awaits
\* them bare, and a rejection ends it before the timer is set
WorkerResults ==
    /\ worker.pc = "handled"
    /\ \E results \in ProcessResults(worker.outcome) :
          worker' = [worker EXCEPT
                        !.results = results,
                        !.pc = IF worker.listener = "registrationSuccessful"
                                  /\ results = "rejected"
                               THEN "rejected" ELSE "processed"]
    /\ UNCHANGED <<core, sg, nz, planning, rej, pack, mapping, clean, deploy, request, dep, goalSets, cmd, kube, task>>

\* safeExit(0), and process.exit(0) when the timer of registrationSuccessful
\* fires
WorkerExit ==
    /\ worker.pc = "processed"
    /\ worker' = [worker EXCEPT !.pc = "exited", !.exitCode = 0]
    /\ UNCHANGED <<core, sg, nz, planning, rej, pack, mapping, clean, deploy, request, dep, goalSets, cmd, kube, task>>

\* the two listeners that start a worker
WorkerListeners == {"startupSuccessful", "registrationSuccessful"}

WorkerInit ==
    /\ \E sc \in {Scenario(PlanChain, FALSE, NoScheduler),
                   Scenario(PlanEffects, TRUE, NoScheduler)} : InitScenario(sc)
    /\ planning = PlanningIdle
    /\ rej = RejIdle
    /\ pack = PackIdle
    /\ mapping = MappingIdle
    /\ clean = CleanIdle
    /\ deploy = DeployIdle
    /\ sg = SgIdle
    /\ nz = NzIdle
    /\ goalSets = NoGoalSets
    /\ cmd = CmdIdle
    /\ kube = KubeIdle
    /\ task = TaskIdle
    /\ request = RequestIdle
    /\ dep = DepIdle
    /\ worker \in {[WorkerIdle EXCEPT !.pc = "started", !.isMaster = isMaster,
                                      !.goalSetId = goalSetId, !.uniqueName = uniqueName,
                                      !.correlationId = correlationId,
                                      !.listener = listener] :
                      isMaster \in BOOLEAN, goalSetId \in {GoalSetId, "set-2"},
                      uniqueName \in Goals, correlationId \in {None, "c1"},
                      listener \in WorkerListeners}

WorkerNext ==
    \/ WorkerStartup
    \/ WorkerProcess
    \/ \E h \in handlers : FulfillAdmit(h)
    \/ \E h \in handlers : FulfillNoFulfillment(h)
    \/ \E h \in handlers : FulfillExecute(h)
    \/ \E h \in handlers : FulfillReturn(h)
    \/ \E h \in handlers : FulfillThrow(h)
    \/ WorkerHandled
    \/ WorkerResults
    \/ WorkerExit

WorkerSpec == WorkerInit /\ [][WorkerNext]_vars

(***************************************************************************)
(* KubernetesIsolatedGoalLauncher (launchGoalK8.ts). Names are sequences   *)
(* of characters, so that slice, split and toLowerCase do what they do.    *)
(***************************************************************************)
\* ATOMIST_DEPLOYMENT_NAME and ATOMIST_DEPLOYMENT_NAMESPACE
DeploymentName == <<"s", "d", "m">>
DeploymentNamespace == "default"

\* configuration.name of the automation client
ClientName == <<"@", "o", "/", "s", "d", "m">>

\* goal set ids: two with the same first seven characters, one shorter
KubeGoalSetIds ==
    {<<"0", "a", "b", "c", "d", "e", "f", "-", "1">>,
     <<"0", "a", "b", "c", "d", "e", "f", "-", "2">>,
     <<"9", "z">>}

\* unique names: two that differ in case and after the #, one without #
KubeUniqueNames ==
    {<<"B", "u", "i", "l", "d", "#", "1">>, <<"b", "u", "i", "l", "d", "#", "2">>,
     <<"t", "e", "s", "t">>}

\* the goal events a launch may be given; the id is that of the event
KubeGoals ==
    {[goalSetId |-> goalSetId, uniqueName |-> uniqueName, id |-> <<goalSetId, uniqueName>>] :
        goalSetId \in KubeGoalSetIds, uniqueName \in KubeUniqueNames}

\* String.prototype.slice(0, end)
slice(str, end) == SubSeq(str, 1, IF Len(str) < end THEN Len(str) ELSE end)

\* String.prototype.split(sep)[0]
splitFirst(str, sep) ==
    IF \E i \in 1..Len(str) : str[i] = sep
    THEN SubSeq(str, 1, (CHOOSE i \in 1..Len(str) :
                            /\ str[i] = sep
                            /\ \A j \in 1..(i - 1) : str[j] # sep) - 1)
    ELSE str

toLowerCaseChar(c) ==
    CASE c = "B" -> "b" [] c = "U" -> "u" [] c = "I" -> "i" [] c = "L" -> "l"
      [] c = "D" -> "d" [] c = "T" -> "t" [] c = "E" -> "e" [] c = "S" -> "s"
      [] OTHER -> c

\* String.prototype.toLowerCase
toLowerCase(str) == [i \in 1..Len(str) |-> toLowerCaseChar(str[i])]

\* a variant that keeps the case of the unique name
goalNameKeepingCase(goal) == splitFirst(goal.uniqueName, "#")

\* goal.uniqueName.split("#")[0].toLowerCase()
goalNameOf(goal) == toLowerCase(splitFirst(goal.uniqueName, "#"))

\* `${deploymentName}-job-${goal.goalSetId.slice(0, 7)}-${goalName}`
JobName(prefix, goal) ==
    prefix \o <<"-", "j", "o", "b", "-">> \o slice(goal.goalSetId, 7) \o <<"-">>
        \o goalNameOf(goal)

\* env of the container of the deployment
DeploymentEnv == <<[name |-> "NODE_ENV", value |-> "production"]>>

\* the Job manifest built from the deployment and the goal
JobSpec(goal, ctx) ==
    [name |-> JobName(DeploymentName, goal),
     namespace |-> DeploymentNamespace,
     goalSetId |-> goal.goalSetId,
     restartPolicy |-> "Never",
     container |-> JobName(DeploymentName, goal),
     env |-> DeploymentEnv \o
             <<[name |-> "ATOMIST_JOB_NAME", value |-> JobName(DeploymentName, goal)],
               [name |-> "ATOMIST_REGISTRATION_NAME", value |-> JobName(ClientName, goal)],
               [name |-> "ATOMIST_GOAL_TEAM", value |-> ctx.workspaceId],
               [name |-> "ATOMIST_GOAL_TEAM_NAME", value |-> ctx.workspaceName],
               [name |-> "ATOMIST_GOAL_ID", value |-> goal.id],
               [name |-> "ATOMIST_CORRELATION_ID", value |-> ctx.correlationId],
               [name |-> "ATOMIST_ISOLATED_GOAL", value |-> "true"]>>]

\* kubectl get job <name> -n <namespace>: code 0 when there is such a Job
JobExists(jobs, jobSpec) ==
    \E j \in jobs : j.name = jobSpec.name /\ j.namespace = jobSpec.namespace

\* the Jobs without the one of that name
JobsWithout(jobs, jobSpec) ==
    {j \in jobs : ~(j.name = jobSpec.name /\ j.namespace = jobSpec.namespace)}

\* kubectl get deployment: a code other than 0 is returned as the result
LaunchGetDeployment(i) ==
    /\ i \in DOMAIN kube.launches
    /\ kube.launches[i].pc = "start"
    /\ kube' = IF kube.deployment
               THEN [kube EXCEPT !.launches[i].pc = "manifest"]
               ELSE [kube EXCEPT !.launches[i].pc = "done", !.launches[i].code = 1]
    /\ UNCHANGED <<core, sg, nz, planning, rej, pack, mapping, clean, deploy, request, dep, goalSets, cmd, worker, task>>

\* the manifest is built and written, then kubectl get job
LaunchGetJob(i) ==
    /\ i \in DOMAIN kube.launches
    /\ kube.launches[i].pc = "manifest"
    /\ LET l == kube.launches[i]
           jobSpec == JobSpec(l.goal, l.ctx)
       IN kube' = [kube EXCEPT !.launches[i].pc = "checked",
                               !.launches[i].jobSpec = jobSpec,
                               !.launches[i].found = JobExists(kube.jobs, jobSpec)]
    /\ UNCHANGED <<core, sg, nz, planning, rej, pack, mapping, clean, deploy, request, dep, goalSets, cmd, worker, task>>

\* kubectl apply when get job found none, kubectl replace --force otherwise.
\* apply creates the Job; on a Job that is there it changes nothing, and fails
\* when the manifest differs (the template of a Job cannot be changed).
\* replace --force deletes the Job and creates it from the manifest.
LaunchIssue(i) ==
    /\ i \in DOMAIN kube.launches
    /\ kube.launches[i].pc = "checked"
    /\ LET l == kube.launches[i]
           existed == JobExists(kube.jobs, l.jobSpec)
           command == IF l.found THEN "replace" ELSE "apply"
           jobs == IF command = "apply" /\ existed
                   THEN kube.jobs
                   ELSE JobsWithout(kube.jobs, l.jobSpec) \cup {l.jobSpec}
           code == IF command = "apply" /\ existed /\ l.jobSpec \notin kube.jobs
                   THEN 1 ELSE 0
       IN kube' = [kube EXCEPT !.launches[i].pc = "done", !.launches[i].code = code,
                               !.jobs = jobs,
                               !.issued = Append(kube.issued,
                                                 [by |-> i, command |-> command,
                                                  existed |-> existed, code |-> code])]
    /\ UNCHANGED <<core, sg, nz, planning, rej, pack, mapping, clean, deploy, request, dep, goalSets, cmd, worker, task>>

\* a launch that has not begun
LaunchOf(goal, correlationId) ==
    [pc |-> "start", goal |-> goal,
     ctx |-> [workspaceId |-> "T1", workspaceName |-> "team", correlationId |-> correlationId],
     jobSpec |-> Absent, found |-> FALSE, code |-> None]

KubeInit ==
    /\ InitScenario(Scenario(PlanChain, FALSE, NoScheduler))
    /\ planning = PlanningIdle
    /\ rej = RejIdle
    /\ pack = PackIdle
    /\ mapping = MappingIdle
    /\ clean = CleanIdle
    /\ deploy = DeployIdle
    /\ sg = SgIdle
    /\ nz = NzIdle
    /\ goalSets = NoGoalSets
    /\ cmd = CmdIdle
    /\ worker = WorkerIdle
    /\ task = TaskIdle
    /\ request = RequestIdle
    /\ dep = DepIdle
    /\ \E deployment \in BOOLEAN, first \in KubeGoals, second \in KubeGoals,
          correlationId \in {"c1", "c2"} :
          kube = [deployment |-> deployment, jobs |-> {},
                  launches |-> <<LaunchOf(first, "c1"), LaunchOf(second, correlationId)>>,
                  issued |-> <<>>]

KubeNext ==
    \/ \E i \in 1..2 : LaunchGetDeployment(i)
    \/ \E i \in 1..2 : LaunchGetJob(i)
    \/ \E i \in 1..2 : LaunchIssue(i)

KubeSpec == KubeInit /\ [][KubeNext]_vars

(***************************************************************************)
(* RequestDownstreamGoalsOnGoalSuccess.handle: one goal that is ready, from *)
(* the fulfillment callbacks to the update                                 *)
(***************************************************************************)
\* the fulfillment callbacks registered; "throws" rejects
Callbacks == {"k8s", "image", "fresh", "throws"}

\* cb.callback(g, invocation): the goal a callback returns
callback(cb, g) ==
    CASE cb = "k8s" -> [g EXCEPT !.data = Append(@, "k8s")]
      [] cb = "image" -> [g EXCEPT !.data = Append(@, "image")]
      [] cb = "fresh" -> [g EXCEPT !.data = <<"fresh">>]

\* the update of a goal that is ready and asks for no pre-approval
ReadyUpdate(g) ==
    [state |-> "requested", description |-> <<"Ready: ", g.name>>, data |-> g.data]

\* the update the copy of the handler in FulfillGoalOnRequested.ts writes
OlderReadyUpdate(g) ==
    [state |-> "requested", description |-> <<"Ready to ", g.name>>, data |-> g.data]

\* the goal is ready: pre-approval is asked for, or the callbacks begin; the
\* copy in FulfillGoalOnRequested.ts knows no pre-approval
RequestBegin ==
    /\ request.pc = "ready"
    /\ request' = IF ~request.older /\ request.sdmG.preApprovalRequired = "true"
                  THEN [request EXCEPT !.pc = "written",
                                       !.update = RequestUpdate(request.sdmG)]
                  ELSE [request EXCEPT !.pc = "callbacks", !.g = request.sdmG]
    /\ UNCHANGED <<core, sg, nz, planning, rej, pack, mapping, clean, deploy, dep, goalSets, cmd, worker, kube, task>>

\* one turn of the loop over the callbacks
RequestCallback ==
    /\ request.pc = "callbacks"
    /\ request.next <= Len(request.cbs)
    /\ LET cb == request.cbs[request.next]
       IN request' = IF cb = "throws"
                     THEN [request EXCEPT !.pc = "thrown"]
                     ELSE [request EXCEPT
                              !.g = callback(cb, request.g),
                              !.next = @ + 1,
                              !.invoked = Append(@, [cb |-> cb, given |-> request.g.data,
                                                     returned |-> callback(cb, request.g).data])]
    /\ UNCHANGED <<core, sg, nz, planning, rej, pack, mapping, clean, deploy, dep, goalSets, cmd, worker, kube, task>>

\* the update after the last callback
RequestWrite ==
    /\ request.pc = "callbacks"
    /\ request.next > Len(request.cbs)
    /\ request' = [request EXCEPT !.pc = "written",
                                  !.update = IF request.older
                                             THEN OlderReadyUpdate(request.g)
                                             ELSE ReadyUpdate(request.g)]
    /\ UNCHANGED <<core, sg, nz, planning, rej, pack, mapping, clean, deploy, dep, goalSets, cmd, worker, kube, task>>

\* the goals that may be ready
ReadyGoals ==
    {[name |-> "deploy", state |-> state, preApprovalRequired |-> preApprovalRequired,
      data |-> data] :
        state \in {"planned", "skipped", "failure"},
        preApprovalRequired \in {"true", "false"}, data \in {<<>>, <<"d0">>}}

\* the lists findFulfillmentCallbackForGoal may return
CallbackLists ==
    {<<>>} \cup {<<cb>> : cb \in Callbacks}
           \cup {<<cb1, cb2>> : cb1 \in Callbacks, cb2 \in Callbacks}

RequestInit ==
    /\ InitScenario(Scenario(PlanChain, FALSE, NoScheduler))
    /\ planning = PlanningIdle
    /\ rej = RejIdle
    /\ pack = PackIdle
    /\ mapping = MappingIdle
    /\ clean = CleanIdle
    /\ deploy = DeployIdle
    /\ sg = SgIdle
    /\ nz = NzIdle
    /\ goalSets = NoGoalSets
    /\ cmd = CmdIdle
    /\ worker = WorkerIdle
    /\ kube = KubeIdle
    /\ task = TaskIdle
    /\ dep = DepIdle
    /\ \E sdmG \in ReadyGoals, cbs \in CallbackLists, older \in BOOLEAN :
          request = [RequestIdle EXCEPT !.pc = "ready", !.sdmG = sdmG, !.cbs = cbs,
                                        !.older = older]

RequestNext == RequestBegin \/ RequestCallback \/ RequestWrite

RequestSpec == RequestInit /\ [][RequestNext]_vars

(***************************************************************************)
(* isDirectlyDependentOn with the mapKeyToGoal defined next to it (the     *)
(* copy of the state engine in FulfillGoalOnRequested.ts)                  *)
(***************************************************************************)
\* goal keys as the goals and their preconditions carry them
DepKeys ==
    {[environment |-> environment, uniqueName |-> uniqueName, name |-> name] :
        environment \in {"0-code", "1-staging"}, uniqueName \in {"b1", "b2"},
        name \in {"build", "compile"}}

\* mapKeyToGoal(goals)(keyToFind) as the file defines it: the first goal found,
\* Absent (undefined) when there is none
localMapKeyToGoal(goals, keyToFind) ==
    LET found == {i \in 1..Len(goals) :
                     /\ goals[i].environment = keyToFind.environment
                     /\ goals[i].name = keyToFind.name}
    IN IF found = {} THEN Absent
       ELSE goals[CHOOSE i \in found : \A j \in found : i <= j]

\* isDirectlyDependentOn of the file
localIsDirectlyDependentOn(successfulGoal, goal) ==
    IF goal = Absent THEN FALSE
    ELSE IF ~goal.hasPreConditions \/ Len(goal.preConditions) = 0 THEN FALSE
    ELSE IF localMapKeyToGoal(goal.preConditions, successfulGoal) # Absent THEN TRUE
    ELSE FALSE

DepAsk ==
    /\ dep.pc = "asked"
    /\ dep' = [dep EXCEPT !.pc = "answered",
                          !.result = localIsDirectlyDependentOn(dep.successfulGoal, dep.goal)]
    /\ UNCHANGED <<core, sg, nz, planning, rej, pack, mapping, clean, deploy, request, goalSets, cmd, worker, kube, task>>

\* the preConditions a goal may carry: none, one or two keys
DepPreConditions ==
    {<<>>} \cup {<<k>> : k \in DepKeys}
           \cup {<<k1, k2>> : k1 \in DepKeys, k2 \in DepKeys}

\* a goal; hasPreConditions is false for one whose preConditions are undefined
DepGoal(hasPreConditions, preConditions) ==
    [uniqueName |-> "g", hasPreConditions |-> hasPreConditions,
     preConditions |-> preConditions]

DepInit ==
    /\ InitScenario(Scenario(PlanChain, FALSE, NoScheduler))
    /\ planning = PlanningIdle
    /\ rej = RejIdle
    /\ pack = PackIdle
    /\ mapping = MappingIdle
    /\ clean = CleanIdle
    /\ deploy = DeployIdle
    /\ sg = SgIdle
    /\ nz = NzIdle
    /\ goalSets = NoGoalSets
    /\ cmd = CmdIdle
    /\ worker = WorkerIdle
    /\ kube = KubeIdle
    /\ task = TaskIdle
    /\ request = RequestIdle
    /\ \E successfulGoal \in DepKeys :
          \/ dep = [DepIdle EXCEPT !.pc = "asked", !.successfulGoal = successfulGoal]
          \/ dep = [DepIdle EXCEPT !.pc = "asked", !.successfulGoal = successfulGoal,
                                   !.goal = DepGoal(FALSE, <<>>)]
          \/ \E preConditions \in DepPreConditions :
                dep = [DepIdle EXCEPT !.pc = "asked", !.successfulGoal = successfulGoal,
                                      !.goal = DepGoal(TRUE, preConditions)]

DepSpec == DepInit /\ [][DepAsk]_vars

(***************************************************************************)
(* ExecuteTaskListener (executeTask.ts)                                    *)
(***************************************************************************)
\* the commands registered with the automation server
RegisteredCommands == {"TestCommand"}

\* texts a job or a task may carry as data; the last two are no JSON
JsonTexts ==
    {"{}", "{\"type\":\"command\"}", "{\"type\":\"command\",\"parameters\":{\"param\":\"bar\"}}",
     "{\"type\":\"other\"}", "", "{"}

\* JSON.parse: the value of a text, Absent when it throws a SyntaxError
JSONparse(text) ==
    CASE text = "{}" -> [type |-> None, parameters |-> <<>>]
      [] text = "{\"type\":\"command\"}" -> [type |-> "command", parameters |-> <<>>]
      [] text = "{\"type\":\"command\",\"parameters\":{\"param\":\"bar\"}}" ->
             [type |-> "command", parameters |-> <<[name |-> "param", value |-> "bar"]>>]
      [] text = "{\"type\":\"other\"}" -> [type |-> "other", parameters |-> <<>>]
      [] OTHER -> Absent

\* what invokeCommand may do: resolve with undefined, with a result without
\* code, with code 0, with another code with or without a message, or reject
InvokeResults ==
    {[kind |-> "undefined", code |-> None, message |-> None],
     [kind |-> "result", code |-> None, message |-> None],
     [kind |-> "result", code |-> "0", message |-> None],
     [kind |-> "result", code |-> "1", message |-> None],
     [kind |-> "result", code |-> "1", message |-> "boom"],
     [kind |-> "rejected", code |-> None, message |-> "kaput"]}

\* the variables of SetJobTaskState
JobTaskState(state, message) == [state |-> state, message |-> message]

\* the update after the command was invoked
ResultUpdate(name, result) ==
    IF result.kind = "rejected"
    THEN JobTaskState("failed", <<"Task command '", name, "' failed: ", result.message>>)
    ELSE IF result.kind # "undefined" /\ result.code # None
    THEN IF result.code = "0"
         THEN JobTaskState("success", <<"Task command '", name, "' successfully executed">>)
         ELSE JobTaskState("failed",
                           IF Truthy(result.message) THEN <<result.message>>
                           ELSE <<"Task command '", name, "' failed">>)
    ELSE JobTaskState("success", <<"Task command '", name, "' successfully executed">>)

\* a task that is not in state created is left alone; otherwise the data of
\* the job and of the task are parsed, the job's first, and a SyntaxError is
\* answered with an update to failed
TaskParse ==
    /\ task.pc = "start"
    /\ task' =
         IF task.state # "created"
         THEN [task EXCEPT !.pc = "returned", !.outcome = "Success"]
         ELSE IF JSONparse(task.jobData) = Absent
         THEN [task EXCEPT
                  !.pc = "parsed",
                  !.updates = Append(@, JobTaskState("failed",
                                 <<"Task command '", task.name, "' failed: ", "SyntaxError">>))]
         ELSE IF JSONparse(task.data) = Absent
         THEN [task EXCEPT
                  !.pc = "parsed", !.jobDataParsed = JSONparse(task.jobData),
                  !.updates = Append(@, JobTaskState("failed",
                                 <<"Task command '", task.name, "' failed: ", "SyntaxError">>))]
         ELSE [task EXCEPT !.pc = "parsed", !.jobDataParsed = JSONparse(task.jobData),
                           !.taskData = JSONparse(task.data)]
    /\ UNCHANGED <<core, sg, nz, planning, rej, pack, mapping, clean, deploy, request, dep, goalSets, cmd, worker, kube>>

\* taskData.type is read: a TypeError when taskData is undefined; a command
\* that is not registered is answered with an update to failed
TaskFind ==
    /\ task.pc = "parsed"
    /\ task' =
         IF task.taskData = Absent
         THEN [task EXCEPT !.pc = "rejected", !.outcome = "TypeError"]
         ELSE IF task.taskData.type # "command"
         THEN [task EXCEPT !.pc = "returned", !.outcome = "Success"]
         ELSE IF task.name \notin RegisteredCommands
         THEN [task EXCEPT
                  !.pc = "returned", !.outcome = "Success",
                  !.updates = Append(@, JobTaskState("failed",
                                 <<"Task command '", task.name, "' could not be found">>))]
         ELSE [task EXCEPT !.pc = "invoking"]
    /\ UNCHANGED <<core, sg, nz, planning, rej, pack, mapping, clean, deploy, request, dep, goalSets, cmd, worker, kube>>

\* invokeCommand: the command is invoked with the parameters of the task; the
\* listener waits for it
TaskInvoke ==
    /\ task.pc = "invoking"
    /\ task' = [task EXCEPT
                   !.pc = "running",
                   !.invoked = Append(@, [name |-> task.name,
                                          parameters |-> task.taskData.parameters])]
    /\ UNCHANGED <<core, sg, nz, planning, rej, pack, mapping, clean, deploy, request, dep, goalSets, cmd, worker, kube>>

\* the command has run: the update for its result, or for its rejection
TaskResult ==
    /\ task.pc = "running"
    /\ \E result \in InvokeResults :
          task' = [task EXCEPT
                      !.pc = "returned", !.outcome = "Success",
                      !.result = result,
                      !.updates = Append(@, ResultUpdate(task.name, result))]
    /\ UNCHANGED <<core, sg, nz, planning, rej, pack, mapping, clean, deploy, request, dep, goalSets, cmd, worker, kube>>

TaskInit ==
    /\ InitScenario(Scenario(PlanChain, FALSE, NoScheduler))
    /\ planning = PlanningIdle
    /\ rej = RejIdle
    /\ pack = PackIdle
    /\ mapping = MappingIdle
    /\ clean = CleanIdle
    /\ deploy = DeployIdle
    /\ sg = SgIdle
    /\ nz = NzIdle
    /\ goalSets = NoGoalSets
    /\ cmd = CmdIdle
    /\ worker = WorkerIdle
    /\ kube = KubeIdle
    /\ request = RequestIdle
    /\ dep = DepIdle
    /\ \E state \in {"created", "running", "success", "failed"},
          name \in {"TestCommand", "Unknown"}, jobData \in {"{}", ""}, data \in JsonTexts :
          task = [TaskIdle EXCEPT !.pc = "start", !.state = state, !.name = name,
                                  !.jobData = jobData, !.data = data]

TaskNext == TaskParse \/ TaskFind \/ TaskInvoke \/ TaskResult

TaskSpec == TaskInit /\ [][TaskNext]_vars

(***************************************************************************)
(* The commands enable deploy and disable deploy (SetDeployEnablement.ts)  *)
(***************************************************************************)
MaxCommands == 4

\* the repos a command may be mapped to
DeployRepos ==
    {[owner |-> "acme", repo |-> repo, providerId |-> "gh"] : repo \in {"shop", "site"}}

\* the handler setDeployEnablement(enable) returns, applied to ctx and params:
\* the event it sends and the message it responds with
setDeployEnablement(enable, params) ==
    [send |-> <<[state |-> IF enable THEN "requested" ELSE "disabled",
                 owner |-> params.owner, repo |-> params.repo,
                 providerId |-> params.providerId]>>,
     respond |-> <<IF enable THEN "Successfully enabled deployment"
                   ELSE "Successfully disabled deployment">>]

\* a variant of the listener that calls the handler with the invocation
listenerCallingHandler(enable, params) == setDeployEnablement(enable, params)

\* listener: async () => setDeployEnablement(enable). The listener takes no
\* invocation and resolves with the handler; the handler is not called, so
\* nothing is sent and nothing is responded.
listener(enable, params) == [send |-> <<>>, respond |-> <<>>]

\* the command handler's listener is invoked for the mapped repo
DeployCommand(name, enable, params) ==
    /\ Len(deploy.invoked) < MaxCommands
    /\ deploy' = [invoked |-> Append(deploy.invoked, [name |-> name, params |-> params]),
                  sent |-> deploy.sent \o listener(enable, params).send,
                  responded |-> deploy.responded \o listener(enable, params).respond]
    /\ UNCHANGED <<core, sg, nz, planning, rej, pack, mapping, clean, request, dep, goalSets, cmd, worker, kube, task>>

EnableDeploy(params) == DeployCommand("EnableDeploy", TRUE, params)

DisableDeploy(params) == DeployCommand("DisableDeploy", FALSE, params)

DeployInit ==
    /\ InitScenario(Scenario(PlanChain, FALSE, NoScheduler))
    /\ planning = PlanningIdle
    /\ rej = RejIdle
    /\ pack = PackIdle
    /\ mapping = MappingIdle
    /\ clean = CleanIdle
    /\ sg = SgIdle
    /\ nz = NzIdle
    /\ goalSets = NoGoalSets
    /\ cmd = CmdIdle
    /\ worker = WorkerIdle
    /\ kube = KubeIdle
    /\ task = TaskIdle
    /\ request = RequestIdle
    /\ dep = DepIdle
    /\ deploy = DeployIdle

DeployNext ==
    \/ \E params \in DeployRepos : EnableDeploy(params)
    \/ \E params \in DeployRepos : DisableDeploy(params)

DeploySpec == DeployInit /\ [][DeployNext]_vars

(***************************************************************************)
(* cleanCompletedJobs, scheduled by createKubernetesGoalLauncher           *)
(***************************************************************************)
\* String.prototype.startsWith
startsWith(str, prefix) ==
    /\ Len(str) >= Len(prefix)
    /\ SubSeq(str, 1, Len(prefix)) = prefix

\* `${deploymentName}-job-`
JobPrefix(deploymentName) == deploymentName \o <<"-", "j", "o", "b", "-">>

\* names of Jobs in the namespace: two of this deployment, one of a deployment
\* whose name ends like this one's, one that is shorter than the prefix
CleanNames ==
    <<JobPrefix(DeploymentName) \o <<"1">>, JobPrefix(DeploymentName) \o <<"2">>,
      <<"x">> \o JobPrefix(DeploymentName) \o <<"1">>, DeploymentName>>

\* the status of a Job: none yet, running, failed, complete, or with a pod
\* that succeeded while the Job is not complete; "none" stands for no Job
JobStatus(hasStatus, completionTime, succeeded) ==
    [job |-> TRUE, hasStatus |-> hasStatus, completionTime |-> completionTime,
     succeeded |-> succeeded]

NoJob == [job |-> FALSE, hasStatus |-> FALSE, completionTime |-> FALSE, succeeded |-> 0]

Running == JobStatus(TRUE, FALSE, 0)

JobStatuses ==
    {NoJob, JobStatus(FALSE, FALSE, 0), Running, JobStatus(TRUE, TRUE, 1),
     JobStatus(TRUE, FALSE, 1), JobStatus(TRUE, TRUE, 0)}

\* a variant that deletes every Job of the deployment that has a status
completedWithStatus(status) == status.hasStatus

\* j.status && j.status.completionTime && j.status.succeeded &&
\* j.status.succeeded > 0
completed(status) ==
    /\ status.hasStatus
    /\ status.completionTime
    /\ status.succeeded # 0
    /\ status.succeeded > 0

\* the names cleanCompletedJobs sets out to delete, in the order of the items
completedSdmJobs(jobs, deploymentName) ==
    SelectSeq(CleanNames,
              LAMBDA name : /\ jobs[name].job
                            /\ startsWith(name, JobPrefix(deploymentName))
                            /\ completed(jobs[name]))

\* the interval fires on the master: kubectl get jobs and the two filters
CleanList ==
    /\ clean.isMaster
    /\ clean.pc = "idle"
    /\ clean' = [clean EXCEPT
                    !.pc = IF completedSdmJobs(clean.jobs, DeploymentName) = <<>>
                           THEN "done" ELSE "deleting",
                    !.listed = clean.jobs,
                    !.todo = completedSdmJobs(clean.jobs, DeploymentName)]
    /\ UNCHANGED <<core, sg, nz, planning, rej, pack, mapping, deploy, request, dep, goalSets, cmd, worker, kube, task>>

\* kubectl delete job <name>: the Job of that name, as it is now, is deleted
CleanDelete ==
    /\ clean.pc = "deleting"
    /\ LET name == Head(clean.todo)
       IN clean' = [clean EXCEPT
                       !.pc = IF Len(clean.todo) = 1 THEN "done" ELSE "deleting",
                       !.todo = Tail(clean.todo),
                       !.jobs[name] = NoJob,
                       !.deleted = IF clean.jobs[name].job
                                   THEN Append(@, [name |-> name, status |-> clean.jobs[name]])
                                   ELSE @]
    /\ UNCHANGED <<core, sg, nz, planning, rej, pack, mapping, deploy, request, dep, goalSets, cmd, worker, kube, task>>

\* the launcher schedules a goal: kubectl get job <name> tells whether a Job
\* of that name exists
LaunchGet(name) ==
    /\ clean.launch = <<>>
    /\ ~clean.relaunched
    /\ startsWith(name, JobPrefix(DeploymentName))
    /\ clean' = [clean EXCEPT !.launch = <<[name |-> name, found |-> clean.jobs[name].job]>>]
    /\ UNCHANGED <<core, sg, nz, planning, rej, pack, mapping, deploy, request, dep, goalSets, cmd, worker, kube, task>>

\* the launcher goes by what get job answered: kubectl replace --force when
\* the Job was found, kubectl apply when not; either puts a new Job, running,
\* under the name
Relaunch(name) ==
    /\ clean.launch # <<>>
    /\ clean.launch[1].name = name
    /\ clean' = [clean EXCEPT !.jobs[name] = Running, !.relaunched = TRUE,
                              !.launch = <<>>,
                              !.issued = Append(@, IF clean.launch[1].found
                                                   THEN "replace --force" ELSE "apply")]
    /\ UNCHANGED <<core, sg, nz, planning, rej, pack, mapping, deploy, request, dep, goalSets, cmd, worker, kube, task>>

CleanInit ==
    /\ InitScenario(Scenario(PlanChain, FALSE, NoScheduler))
    /\ planning = PlanningIdle
    /\ rej = RejIdle
    /\ pack = PackIdle
    /\ mapping = MappingIdle
    /\ sg = SgIdle
    /\ nz = NzIdle
    /\ goalSets = NoGoalSets
    /\ cmd = CmdIdle
    /\ worker = WorkerIdle
    /\ kube = KubeIdle
    /\ task = TaskIdle
    /\ request = RequestIdle
    /\ dep = DepIdle
    /\ deploy = DeployIdle
    /\ \E isMaster \in BOOLEAN,
          jobs \in [{CleanNames[i] : i \in 1..Len(CleanNames)} -> JobStatuses] :
          clean = [CleanIdle EXCEPT !.isMaster = isMaster, !.jobs = jobs]

CleanNext ==
    \/ CleanList
    \/ CleanDelete
    \/ \E i \in 1..Len(CleanNames) : LaunchGet(CleanNames[i])
    \/ \E i \in 1..Len(CleanNames) : Relaunch(CleanNames[i])

CleanSpec == CleanInit /\ [][CleanNext]_vars

(***************************************************************************)
(* mapTest: a push test from a node of the YAML tree                       *)
(***************************************************************************)
\* the keys whose value, when truthy, is all their maker asks for
PlainKeys == {"hasFile", "isRepo", "isBranch", "isMaterialChange", "hasCommit"}

\* a node with no key at all: {}
EmptyNode ==
    [type |-> "object", text |-> None, keys |-> {}, isGoal |-> FALSE, isGoalTest |-> Absent,
     hasFileContaining |-> "absent", hasResourceProvider |-> "absent", use |-> None,
     not |-> Absent, and |-> Absent, or |-> Absent]

\* the registries: additionalTests and extensionTests, by name
additionalTests == {"extra"}

extensionTests == {"ext"}

\* what a maker or mapTest comes to: a push test (its name, in tokens), undefined,
\* or a thrown error
Made(pt) == [threw |-> FALSE, pt |-> pt]

Undefined == [threw |-> FALSE, pt |-> <<>>]

Thrown == [threw |-> TRUE, pt |-> <<>>]

\* changeCase.camel on the strings used here; an object gives "objectObject"
camel(test) ==
    IF test.type = "function" THEN "function"
    ELSE IF test.type # "string" THEN "objectObject"
    ELSE CASE test.text = "is_default_branch" -> "isDefaultBranch"
           [] test.text = "to-default-branch" -> "toDefaultBranch"
           [] OTHER -> test.text

RECURSIVE mapTest(_)
RECURSIVE mapTestsFrom(_, _)

\* mapTests: every element in turn, the first error ends it
mapTestsFrom(tests, k) ==
    IF k > Len(tests) THEN Made(<<>>)
    ELSE LET first == mapTest(tests[k])
             rest == mapTestsFrom(tests, k + 1)
         IN IF first.threw \/ rest.threw THEN Thrown
            ELSE Made(first.pt \o rest.pt)

mapTests(tests) == mapTestsFrom(tests, 1)

PlainTest(test, key) == IF key \in test.keys THEN Made(<<key>>) ELSE Undefined

HasFile(test) == PlainTest(test, "hasFile")

IsRepo(test) == PlainTest(test, "isRepo")

IsBranch(test) == PlainTest(test, "isBranch")

IsDefaultBranch(test) ==
    IF camel(test) \in {"isDefaultBranch", "toDefaultBranch"}
    THEN Made(<<"ToDefaultBranch">>) ELSE Undefined

IsGoal(test) ==
    IF ~test.isGoal THEN Undefined
    ELSE IF test.isGoalTest = Absent THEN Made(<<"isGoal">>)
    ELSE LET pushTest == mapTest(test.isGoalTest)
         IN IF pushTest.threw THEN Thrown ELSE Made(<<"isGoal", "(">> \o pushTest.pt \o <<")">>)

IsMaterialChange(test) == PlainTest(test, "isMaterialChange")

\* a variant that builds the test whether or not there is content
HasFileContainingLenient(test) ==
    IF test.hasFileContaining = "absent" THEN Undefined ELSE Made(<<"hasFileContaining">>)

HasFileContaining(test) ==
    IF test.hasFileContaining = "absent" THEN Undefined
    ELSE IF test.hasFileContaining = "noContent" THEN Thrown
    ELSE Made(<<"hasFileContaining">>)

HasResourceProvider(test) ==
    IF test.hasResourceProvider = "absent" THEN Undefined
    ELSE IF test.hasResourceProvider = "noType" THEN Thrown
    ELSE Made(<<"hasResourceProvider">>)

HasCommit(test) == PlainTest(test, "hasCommit")

Not(test) ==
    IF test.not = Absent THEN Undefined
    ELSE LET inner == mapTest(test.not)
         IN IF inner.threw THEN Thrown ELSE Made(<<"not", "(">> \o inner.pt \o <<")">>)

And(test) ==
    IF test.and = Absent THEN Undefined
    ELSE LET inner == mapTests(test.and)
         IN IF inner.threw THEN Thrown ELSE Made(<<"and", "(">> \o inner.pt \o <<")">>)

Or(test) ==
    IF test.or = Absent THEN Undefined
    ELSE LET inner == mapTests(test.or)
         IN IF inner.threw THEN Thrown ELSE Made(<<"or", "(">> \o inner.pt \o <<")">>)

AdditionalTest(test) ==
    IF test.use # None /\ test.use \in additionalTests THEN Made(<<test.use>>) ELSE Undefined

FunctionTest(test) == IF test.type = "function" THEN Made(<<"function">>) ELSE Undefined

ExtensionTest(test) ==
    IF \E extTestName \in extensionTests : test.use = extTestName
    THEN Made(<<test.use>>) ELSE Undefined

\* CreatePushTests, by position
CreatePushTest(k, test) ==
    CASE k = 1 -> HasFile(test)
      [] k = 2 -> IsRepo(test)
      [] k = 3 -> IsBranch(test)
      [] k = 4 -> IsDefaultBranch(test)
      [] k = 5 -> IsGoal(test)
      [] k = 6 -> IsMaterialChange(test)
      [] k = 7 -> HasFileContaining(test)
      [] k = 8 -> HasResourceProvider(test)
      [] k = 9 -> HasCommit(test)
      [] k = 10 -> Not(test)
      [] k = 11 -> And(test)
      [] k = 12 -> Or(test)
      [] k = 13 -> AdditionalTest(test)
      [] k = 14 -> FunctionTest(test)
      [] k = 15 -> ExtensionTest(test)

CreatePushTests == 15

RECURSIVE mapTestFrom(_, _)
mapTestFrom(test, k) ==
    IF k > CreatePushTests THEN Thrown
    ELSE LET pt == CreatePushTest(k, test)
         IN IF pt.threw THEN Thrown
            ELSE IF pt.pt # <<>> THEN pt
            ELSE mapTestFrom(test, k + 1)

mapTest(test) == mapTestFrom(test, 1)

\* the nodes given to mapTest
NodeOfKeys(keys) == [EmptyNode EXCEPT !.keys = keys]

NodeOfText(text) == [EmptyNode EXCEPT !.type = "string", !.text = text]

NodeNot(inner) == [EmptyNode EXCEPT !.not = inner]

NodeAnd(tests) == [EmptyNode EXCEPT !.and = tests]

NodeOr(tests) == [EmptyNode EXCEPT !.or = tests]

GoodLeaf == NodeOfKeys({"hasFile"})

BadLeaf == [EmptyNode EXCEPT !.hasFileContaining = "noContent"]

Leaves ==
    {NodeOfKeys({k}) : k \in PlainKeys}
    \cup {EmptyNode, [EmptyNode EXCEPT !.type = "function"]}
    \cup {NodeOfText(s) : s \in {"is_default_branch", "to-default-branch", "hasFile"}}
    \cup {[EmptyNode EXCEPT !.hasFileContaining = c] : c \in {"noContent", "content"}}
    \cup {[EmptyNode EXCEPT !.hasResourceProvider = c] : c \in {"noType", "type"}}
    \cup {[EmptyNode EXCEPT !.use = u] : u \in {"extra", "ext", "unknown"}}
    \cup {[EmptyNode EXCEPT !.isGoal = TRUE, !.isGoalTest = t] : t \in {Absent, GoodLeaf, BadLeaf}}
    \cup {[GoodLeaf EXCEPT !.hasFileContaining = "noContent"],
          [EmptyNode EXCEPT !.hasFileContaining = "content", !.hasResourceProvider = "noType"]}

ListsOf(nodes) == {<<n>> : n \in nodes} \cup {<<n, o>> : n \in nodes, o \in nodes}

Composites(nodes, few) ==
    {NodeNot(n) : n \in nodes}
    \cup {NodeAnd(tests) : tests \in ListsOf(few)}
    \cup {NodeOr(tests) : tests \in ListsOf(few)}
    \cup {[NodeNot(BadLeaf) EXCEPT !.keys = {"hasFile"}],
          [NodeAnd(<<GoodLeaf>>) EXCEPT !.or = <<BadLeaf>>],
          [NodeNot(GoodLeaf) EXCEPT !.and = <<EmptyNode>>]}

Trees ==
    Leaves
    \cup Composites(Leaves, {GoodLeaf, BadLeaf, EmptyNode})
    \cup Composites(Composites(Leaves, {GoodLeaf}),
                    {GoodLeaf, NodeNot(BadLeaf), NodeOr(<<GoodLeaf, EmptyNode>>)})

\* mapTest is called with a node
MapTest ==
    /\ mapping.pc = "given"
    /\ mapping' = [mapping EXCEPT !.pc = "mapped", !.result = mapTest(mapping.test)]
    /\ UNCHANGED <<core, sg, nz, planning, rej, pack, deploy, clean, request, dep, goalSets, cmd, worker, kube, task>>

MapInit ==
    /\ InitScenario(Scenario(PlanChain, FALSE, NoScheduler))
    /\ planning = PlanningIdle
    /\ rej = RejIdle
    /\ pack = PackIdle
    /\ sg = SgIdle
    /\ nz = NzIdle
    /\ goalSets = NoGoalSets
    /\ cmd = CmdIdle
    /\ worker = WorkerIdle
    /\ kube = KubeIdle
    /\ task = TaskIdle
    /\ request = RequestIdle
    /\ dep = DepIdle
    /\ deploy = DeployIdle
    /\ clean = CleanIdle
    /\ \E test \in Trees : mapping = [pc |-> "given", test |-> test, result |-> Undefined]

MapNext == MapTest

MapSpec == MapInit /\ [][MapNext]_vars

(***************************************************************************)
(* k8sGoalSchedulingSupport and the processes it configures                *)
(***************************************************************************)
MaxProcesses == 3

\* a process of the deployment: its environment, its configuration once the
\* extension pack has configured it, the goal it is to fulfil, and the
\* process whose scheduler launched it (0 when started otherwise)
Process(isolated, kubernetes, goal, parent) ==
    [env |-> [ATOMIST_ISOLATED_GOAL |-> isolated, kubernetes |-> kubernetes],
     goalScheduler |-> NoScheduler, pc |-> "new", goal |-> goal, via |-> None,
     parent |-> parent]

\* a variant that configures the scheduler whatever the environment says of
\* an isolated goal
configureAlways(env, goalScheduler, supports) ==
    IF env.kubernetes
    THEN SchedulerArray(<<GoalScheduler("k8s", supports)>>)
    ELSE goalScheduler

\* configure of k8sGoalSchedulingSupport: sdm.configuration.sdm.goalScheduler
\* afterwards
configure(env, goalScheduler, supports) ==
    IF env.ATOMIST_ISOLATED_GOAL \in {None, ""} /\ env.kubernetes
    THEN SchedulerArray(<<GoalScheduler("k8s", supports)>>)
    ELSE goalScheduler

\* the extension pack is configured when the process starts
PackConfigure(p) ==
    /\ p \in DOMAIN pack.procs
    /\ pack.procs[p].pc = "new"
    /\ pack' = [pack EXCEPT
                   !.procs[p].pc = "configured",
                   !.procs[p].goalScheduler =
                       configure(pack.procs[p].env, pack.procs[p].goalScheduler,
                                 pack.supports)]
    /\ UNCHANGED <<core, sg, nz, planning, rej, mapping, clean, deploy, request, dep, goalSets, cmd, worker, kube, task>>

\* FulfillGoalOnRequested on the goal of the process: the scheduler found
\* launches a Job, a process with ATOMIST_ISOLATED_GOAL = "true" for the same
\* goal; with no scheduler the goal is executed in the process
PackFulfill(p) ==
    /\ p \in DOMAIN pack.procs
    /\ pack.procs[p].pc = "configured"
    /\ LET gi == [uniqueName |-> pack.procs[p].goal]
           goalScheduler == findGoalScheduler(gi, pack.procs[p].goalScheduler)
       IN IF goalScheduler = Absent
          THEN pack' = [pack EXCEPT !.procs[p].pc = "done", !.procs[p].via = "in-process"]
          ELSE /\ Len(pack.procs) < MaxProcesses
               /\ pack' = [pack EXCEPT
                              !.procs = Append([@ EXCEPT ![p].pc = "done",
                                                         ![p].via = goalScheduler.name],
                                               Process("true", pack.procs[p].env.kubernetes,
                                                       pack.procs[p].goal, p))]
    /\ UNCHANGED <<core, sg, nz, planning, rej, mapping, clean, deploy, request, dep, goalSets, cmd, worker, kube, task>>

PackInit ==
    /\ InitScenario(Scenario(PlanChain, FALSE, NoScheduler))
    /\ planning = PlanningIdle
    /\ rej = RejIdle
    /\ sg = SgIdle
    /\ nz = NzIdle
    /\ goalSets = NoGoalSets
    /\ cmd = CmdIdle
    /\ worker = WorkerIdle
    /\ kube = KubeIdle
    /\ task = TaskIdle
    /\ request = RequestIdle
    /\ dep = DepIdle
    /\ deploy = DeployIdle
    /\ clean = CleanIdle
    /\ mapping = MappingIdle
    /\ \E isolated \in {None, "true"}, kubernetes \in BOOLEAN, goal \in Goals,
          supports \in SUBSET Goals :
          pack = [procs |-> <<Process(isolated, kubernetes, goal, 0)>>, supports |-> supports]

PackNext ==
    \/ \E p \in 1..MaxProcesses : PackConfigure(p)
    \/ \E p \in 1..MaxProcesses : PackFulfill(p)

PackSpec == PackInit /\ [][PackNext]_vars

(***************************************************************************)
(* The goals-set listener on its own: the planner tells it of a new goal   *)
(* set, with goals or without.                                             *)
(***************************************************************************)
\* the goal sets a planner may announce: none, one without goals, one with
PlannedGoalSets ==
    {[defined |-> FALSE, goals |-> <<>>], [defined |-> TRUE, goals |-> <<>>],
     [defined |-> TRUE, goals |-> <<"a">>], PlannedGoalSet(PlanChain)}

\* the listener runs: createStatus for every status it is to create
PendingStatusOnGoalSet ==
    /\ planning.pc = "told"
    /\ planning' = [planning EXCEPT
                       !.pc = "done",
                       !.published = createPendingGitHubStatusOnGoalSet(planning.goalSet)]
    /\ UNCHANGED <<core, sg, nz, rej, pack, mapping, clean, deploy, request, dep, goalSets, cmd, worker, kube, task>>

PlanningInit ==
    /\ InitScenario(Scenario(PlanChain, FALSE, NoScheduler))
    /\ sg = SgIdle
    /\ nz = NzIdle
    /\ goalSets = NoGoalSets
    /\ cmd = CmdIdle
    /\ worker = WorkerIdle
    /\ kube = KubeIdle
    /\ task = TaskIdle
    /\ request = RequestIdle
    /\ dep = DepIdle
    /\ deploy = DeployIdle
    /\ clean = CleanIdle
    /\ mapping = MappingIdle
    /\ pack = PackIdle
    /\ rej = RejIdle
    /\ \E goalSet \in PlannedGoalSets :
          planning = [PlanningIdle EXCEPT !.pc = "told", !.goalSet = goalSet]

PlanningNext == PendingStatusOnGoalSet

PlanningSpec == PlanningInit /\ [][PlanningNext]_vars

(***************************************************************************)
(* The signing round trip on its own: a sender signs a goal (signGoal, as  *)
(* messageSending does), a receiver verifies it (verifyGoal).              *)
(***************************************************************************)
SenderKeys == {Key("k1"), Key("k2"), Key("k3")}

\* the goals sent: goals of two plans, as requested and as failed, the
\* failed ones also with the description isGoalRejected looks for
SgGoals ==
    {GoalMessage(p, g, st, <<d, p[g].name>>) :
        p \in {PlanChain, PlanEffects}, g \in Goals,
        st \in {"requested", "failure"}, d \in {"Ready: ", "Rejected: "}}

\* the sender's goalSigning configuration
SgSenders ==
    {[enabled |-> en, signingKey |-> k] :
        en \in BOOLEAN, k \in SenderKeys \cup {Absent}}

\* the verification keys a receiver may be configured with, in every order
KeyLists == UNION {[1..n -> SenderKeys] : n \in 0..MaxKeys}

\* the receiver's goalSigning configuration after initVerificationKeys
Receiver(own, configured) ==
    [enabled |-> TRUE, signingKey |-> own,
     verificationKeys |-> initVerificationKeys(configured, own)]

\* where a message may be bound for
Destinations ==
    {<<IngesterOf("SdmGoal")>>, <<IngesterOf("SdmGoalSet")>>,
     <<[userAgent |-> "slack", rootType |-> None]>>}

\* the sender's listener handles the outgoing message
SgSign ==
    /\ sg.pc = "new"
    /\ sg' = [sg EXCEPT !.pc = "signed",
                        !.goal = messageSending(sg.sent, sg.dests, sg.sender).message,
                        !.threw = messageSending(sg.sent, sg.dests, sg.sender).threw]
    /\ UNCHANGED <<config, tools, nz, store, busRequested, busSuccess, busCompleted, handlers,
                   cancel, disturbed, reqCount, runs, last, statuses, setRecord>>

Altered(field, goal) == [field |-> field, goal |-> goal]

\* A signed goal with the value of one field of the canonical form changed
\* on the way to the receiver
Alterations(goal) ==
    {c \in
        {Altered("uniqueName", [goal EXCEPT !.uniqueName = "z"]),
         Altered("environment", [goal EXCEPT !.environment = "9-prod"]),
         Altered("goalSetId", [goal EXCEPT !.goalSetId = "gs2"]),
         Altered("state", [goal EXCEPT !.state = "success"]),
         Altered("state", [goal EXCEPT !.state = "failure",
                                       !.description = <<"Rejected: ", goal.name>>]),
         Altered("ts", [goal EXCEPT !.ts = "2"]),
         Altered("version", [goal EXCEPT !.version = "2"]),
         Altered("repo", [goal EXCEPT !.repo.owner = "evil"]),
         Altered("sha", [goal EXCEPT !.sha = "sha-evil"]),
         Altered("branch", [goal EXCEPT !.branch = "evil"]),
         Altered("fulfillment", [goal EXCEPT !.fulfillment.name = "evil"]),
         Altered("fulfillment", [goal EXCEPT !.fulfillment.method = "other"]),
         Altered("fulfillment", [goal EXCEPT !.fulfillment.registration = Other]),
         Altered("preConditions", [goal EXCEPT !.preConditions = <<GoalKey("0-code", "z")>>]),
         Altered("data", [goal EXCEPT !.data = "{}"]),
         Altered("data", [goal EXCEPT !.data = ""]),
         Altered("url", [goal EXCEPT !.url = "http://evil"]),
         Altered("externalUrls",
                 [goal EXCEPT !.externalUrls = <<[label |-> "log", url |-> "http://evil"]>>]),
         Altered("provenance", [goal EXCEPT !.provenance = <<>>]),
         Altered("retryFeasible",
                 [goal EXCEPT !.retryFeasible = IF @ = "true" THEN "false" ELSE "true"]),
         Altered("retryFeasible", [goal EXCEPT !.retryFeasible = None]),
         Altered("approvalRequired", [goal EXCEPT !.approvalRequired = "true"]),
         Altered("approval", [goal EXCEPT !.approval = goal.provenance[1]]),
         Altered("preApprovalRequired",
                 [goal EXCEPT !.preApprovalRequired = IF @ = "true" THEN "false" ELSE "true"]),
         Altered("preApproval", [goal EXCEPT !.preApproval = goal.provenance[1]])} :
        c.goal # goal}

\* the signed goal is altered in transit
SgAlter ==
    /\ sg.pc = "signed"
    /\ ~sg.threw
    /\ sg.altered = None
    /\ sg.goal.signature # Absent
    /\ \E c \in Alterations(sg.goal) : sg' = [sg EXCEPT !.goal = c.goal, !.altered = c.field]
    /\ UNCHANGED <<config, tools, nz, store, busRequested, busSuccess, busCompleted, handlers,
                   cancel, disturbed, reqCount, runs, last, statuses, setRecord>>

\* the receiver verifies what arrived
SgVerify ==
    /\ sg.pc = "signed"
    /\ ~sg.threw
    /\ sg' = [sg EXCEPT !.pc = "verified",
                        !.verdict = verifyGoal(sg.goal, Receiver(sg.own, sg.configured))]
    /\ UNCHANGED <<config, tools, nz, store, busRequested, busSuccess, busCompleted, handlers,
                   cancel, disturbed, reqCount, runs, last, statuses, setRecord>>

SignInit ==
    /\ InitScenario(Scenario(PlanChain, TRUE, NoScheduler))
    /\ nz = NzIdle
    /\ ToolsIdle
    /\ sg \in {[pc |-> "new", goal |-> goal, sent |-> goal, dests |-> dests,
                sender |-> sender, own |-> own, configured |-> configured,
                threw |-> FALSE, altered |-> None, verdict |-> None] :
                  goal \in SgGoals, dests \in Destinations, sender \in SgSenders,
                  own \in {Absent, Key("k1")}, configured \in KeyLists}

SignNext == SgSign \/ SgAlter \/ SgVerify

SignSpec == SignInit /\ [][SignNext]_vars

(***************************************************************************)
(* verifyGoal on a goal event, and again on the event of its rejection     *)
(***************************************************************************)
\* the goal events that arrive: requested goals, unsigned or signed by a
\* sender
RejGoals ==
    {GoalMessage(PlanChain, g, "requested", <<"Ready: ", PlanChain[g].name>>) : g \in Goals}
    \cup {signGoal(GoalMessage(PlanChain, g, "requested", <<"Ready: ", PlanChain[g].name>>),
                   [enabled |-> TRUE, signingKey |-> k]) : g \in Goals, k \in SenderKeys}

\* the SDMs that verify: with or without a signing key of their own
RejReceivers ==
    {Receiver(own, configured) :
        own \in {Absent, Key("k1"), Key("k2")}, configured \in KeyLists}

\* other SDMs that verify the event of the rejection: one that trusts no
\* other SDM, one that trusts the SDM whose key is k1, one with no signing key
RejOthers ==
    {Receiver(Key("k2"), <<>>), Receiver(Key("k2"), <<Key("k1")>>), Receiver(Absent, <<>>)}

\* verifyGoal by the SDM gsc on the goal event: a goal that does not pass is
\* rejected, the update sent through the SDM's own messageSending, and the
\* Error thrown
RejVerifyBy(gsc, next) ==
    LET reason == verifyGoal(rej.goal, gsc)
        update == rejectGoalUpdate(reason, rej.goal)
        message == [rej.goal EXCEPT !.state = update.state,
                                    !.description = update.description]
        sending == messageSending(message, <<IngesterOf("SdmGoal")>>, gsc)
    IN rej' = IF reason = "ok"
              THEN [rej EXCEPT !.pc = IF next = "rejected" THEN "passed" ELSE next]
              ELSE IF sending.threw
              THEN [rej EXCEPT !.pc = IF next = "rejected" THEN "unsent" ELSE next,
                               !.errors = @ + 1]
              ELSE [rej EXCEPT !.pc = next, !.goal = sending.message,
                               !.updates = Append(@, update), !.errors = @ + 1]

\* the goal event arrives and is verified
RejFirst ==
    /\ rej.pc = "new"
    /\ RejVerifyBy(rej.first, "rejected")
    /\ UNCHANGED <<core, sg, nz, planning, pack, mapping, clean, deploy, request, dep, goalSets, cmd, worker, kube, task>>

\* the event of the rejected goal is verified
RejLater ==
    /\ rej.pc = "rejected"
    /\ RejVerifyBy(rej.later, "again")
    /\ UNCHANGED <<core, sg, nz, planning, pack, mapping, clean, deploy, request, dep, goalSets, cmd, worker, kube, task>>

RejInit ==
    /\ InitScenario(Scenario(PlanChain, TRUE, NoScheduler))
    /\ planning = PlanningIdle
    /\ sg = SgIdle
    /\ nz = NzIdle
    /\ goalSets = NoGoalSets
    /\ cmd = CmdIdle
    /\ worker = WorkerIdle
    /\ kube = KubeIdle
    /\ task = TaskIdle
    /\ request = RequestIdle
    /\ dep = DepIdle
    /\ deploy = DeployIdle
    /\ clean = CleanIdle
    /\ mapping = MappingIdle
    /\ pack = PackIdle
    /\ \E goal \in RejGoals, first \in RejReceivers :
       \E later \in {first} \cup RejOthers :
          rej = [RejIdle EXCEPT !.pc = "new", !.goal = goal, !.first = first,
                                !.later = later]

RejNext == RejFirst \/ RejLater

RejSpec == RejInit /\ [][RejNext]_vars

(***************************************************************************)
(* The canonical form on its own: normalizeGoal applied to two goal        *)
(* events.                                                                 *)
(***************************************************************************)
\* goal events that differ in uniqueName, environment, goalSetId, state, sha
\* and ts
CanonGoals ==
    {[GoalMessage(PlanChain, "a", st, <<"Ready: ", "build">>)
         EXCEPT !.uniqueName = u, !.environment = e, !.goalSetId = gs,
                !.sha = sha, !.ts = ts] :
        u \in {"a", "b", SplicedName},
        e \in {"0-code", "1-staging", SplicedEnvironment},
        gs \in {"gs1", "gs2"}, st \in {"requested", "success"},
        sha \in {"sha1", "sha2"}, ts \in {"1", "2"}}

Normalize ==
    /\ nz.pc = "new"
    /\ nz' = [nz EXCEPT !.pc = "done",
                        !.leftText = normalizeGoal(nz.left),
                        !.rightText = normalizeGoal(nz.right)]
    /\ UNCHANGED <<config, tools, sg, store, busRequested, busSuccess, busCompleted, handlers,
                   cancel, disturbed, reqCount, runs, last, statuses, setRecord>>

CanonInit ==
    /\ InitScenario(Scenario(PlanChain, TRUE, NoScheduler))
    /\ sg = SgIdle
    /\ ToolsIdle
    /\ nz \in {[pc |-> "new", left |-> l, right |-> r, leftText |-> <<>>,
                rightText |-> <<>>] : l \in CanonGoals, r \in CanonGoals}

CanonNext == Normalize

CanonSpec == CanonInit /\ [][CanonNext]_vars

(***************************************************************************)
(* Properties.                                                             *)
(***************************************************************************)
\* with the goals in the given states, the preconditions of goal g are all
\* matched by goals in state success
PreconditionsSucceeded(states, g) ==
    \A i \in 1..Len(plan[g].preConditions) :
        \E d \in Goals :
            /\ plan[d].environment = plan[g].preConditions[i].environment
            /\ d = plan[g].preConditions[i].uniqueName
            /\ states[d] = "success"

\* C1, as claimed: in every reachable state a goal in state requested has
\* each of its preConditions matched by a goal of the set in state success.
C1_RequestedHasPreconditionsMet ==
    \A g \in Goals :
        store[g].state = "requested" => PreconditionsSucceeded(StateOf(store), g)

\* C2, as claimed: once a goal is in a terminal state no step of the state
\* engine, the dispatcher or cancelGoalSet changes its state.
C2_TerminalIsFinal ==
    [][\A g \in Goals :
          store[g].state \in TerminalStates => store'[g].state = store[g].state]_vars

\* the transitions the specification lists as permitted
ListedTransition(from, to, retry) ==
    \/ from = "planned" /\ to \in {"requested", "waiting_for_pre_approval", "skipped"}
    \/ from = "waiting_for_pre_approval" /\ to = "pre_approved"
    \/ from = "pre_approved" /\ to = "requested"
    \/ from = "requested" /\ to = "in_process"
    \/ from = "in_process" /\ to \in {"success", "failure", "waiting_for_approval", "stopped"}
    \/ from = "failure" /\ retry /\ to = "requested"
    \/ from \notin TerminalStates /\ to = "canceled"

\* C3, as claimed: every change of a goal's state written by the dispatcher,
\* the state engine, the signature verifier or cancelGoalSet is one of the
\* listed transitions (only these handlers write goals here).
C3_OnlyListedTransitions ==
    [][\A g \in Goals :
          store'[g].state # store[g].state =>
              ListedTransition(store[g].state, store'[g].state,
                               plan[g].retryFeasible)]_vars

\* C4: a turn of cancelGoalSet's loop leaves the store as it is when the goal
\* was fetched in a terminal state (success, canceled, stopped, skipped,
\* failure) and otherwise makes the goal canceled, changing no other goal;
\* cancelGoalSet finishes only after a turn for every goal of the set, and
\* then emits the set record with state canceled.
C4_CancelGoalSetEffect ==
    [][/\ (cancel.pc = "loop" /\ cancel'.pc = "loop" /\ cancel'.next = cancel.next + 1) =>
            IF cancel.snap[GoalOrder[cancel.next]] \in TerminalStates
            THEN store' = store
            ELSE store' = [store EXCEPT ![GoalOrder[cancel.next]] =
                              [state |-> "canceled",
                               description |->
                                   <<"Canceled ", plan[GoalOrder[cancel.next]].name>>]]
       /\ (cancel.pc = "loop" /\ cancel'.pc = "done") =>
            /\ cancel.next = Len(GoalOrder) + 1
            /\ setRecord' = "canceled"
            /\ store' = store]_vars

\* C4, witness: cancelGoalSet has finished on a set with a goal it canceled
\* and a goal that had ended before
C4_CanceledSomeLeftSome ==
    /\ last.by = "cancel"
    /\ last.did = "finish"
    /\ \E g \in Goals : store[g].state = "canceled"
    /\ \E g \in Goals : store[g].state \in TerminalStates \ {"canceled"}

\* C5, as claimed: a goal with preconditions that cancelGoalSet found not yet
\* requested, its preconditions having succeeded, and has canceled, stays
\* canceled.
C5_CanceledStaysCanceled ==
    [][\A g \in Goals :
          (/\ cancel.pc \in {"loop", "done"}
           /\ Len(plan[g].preConditions) > 0
           /\ PreconditionsSucceeded(cancel.snap, g)
           /\ cancel.snap[g] = "planned"
           /\ reqCount[g] = 0
           /\ store[g].state = "canceled") => store'[g].state = "canceled"]_vars

\* C6, as claimed: the executor is invoked, or a worker scheduled, at most
\* once for each time a goal was put in state requested.
C6_AtMostOncePerRequest ==
    \A g \in Goals : runs[g] <= reqCount[g]

\* C7, as claimed: for a goal with fulfillment method side-effect and a
\* fulfillment name other than this registration's, the dispatcher, given an
\* event that passes signature verification, writes nothing and returns
\* success; the goal is never executed or scheduled.
C7_ForeignNameNeverFulfilled ==
    /\ \A g \in Goals :
          (plan[g].method = "side-effect" /\ plan[g].fname # Me) => runs[g] = 0
    /\ (/\ last.by = "fulfill"
        /\ last.verified = "ok"
        /\ plan[last.goal].method = "side-effect"
        /\ plan[last.goal].fname # Me) =>
           /\ last.wrote = None
           /\ last.outcome \in {None, "Success"}

\* C7, amended: a side-effect goal whose fulfillment.registration is not this
\* registration is never executed or scheduled here; unless the signature of
\* its event is rejected, the dispatcher writes nothing and returns success.
C7_ForeignRegistrationNeverFulfilled ==
    /\ \A g \in Goals :
          (plan[g].method = "side-effect" /\ plan[g].registration # Me) => runs[g] = 0
    /\ (/\ last.by = "fulfill"
        /\ plan[last.goal].method = "side-effect"
        /\ plan[last.goal].registration # Me) =>
           /\ last.did \in {"ignore", "start", "canceled", "reject"}
           /\ last.did = "reject" => last.verified # "ok"
           /\ last.did # "reject" =>
                 /\ last.wrote = None
                 /\ last.outcome \in {None, "Success"}
           /\ last.did \in {"ignore", "canceled"} => last.outcome = "Success"

\* C7, witness: the dispatcher has returned success for a side effect of this
\* registration's own goal set that names no registration
C7_SideEffectIgnored ==
    /\ last.by = "fulfill"
    /\ last.did = "ignore"
    /\ plan[last.goal].method = "side-effect"
    /\ plan[last.goal].provenance = Me
    /\ ~Truthy(plan[last.goal].registration)
    /\ last.outcome = "Success"
    /\ store[last.goal].state = "requested"

\* C8, as claimed: a goal rejected for its signature is marked failure with
\* the description "Rejected because <reason>".
C8_RejectedBecauseReason ==
    last.did = "reject" =>
        store[last.goal] = [state |-> "failure",
                            description |-> <<"Rejected because ", last.verified>>]

\* C9, as claimed: after a signature rejection, an exception of the
\* execution, a scheduler error or a missing fulfillment the dispatcher
\* reports success.
C9_AlwaysReportsSuccess ==
    (/\ last.by = "fulfill"
     /\ last.did \in {"reject", "throw", "schedule-failed", "no-fulfillment"}) =>
        last.outcome = "Success"

\* the sender's public key is among the receiver's verification keys
SenderKeyConfigured ==
    \E i \in 1..Len(Receiver(sg.own, sg.configured).verificationKeys) :
        Receiver(sg.own, sg.configured).verificationKeys[i].publicKey
            = sg.sender.signingKey.publicKey

\* C10: verifyGoal accepts every goal signGoal has signed with a key whose
\* public key is one of the receiver's verification keys, whatever other keys
\* the receiver has and in whatever order.
C10_SignVerifyRoundTrip ==
    (/\ sg.pc = "verified"
     /\ sg.altered = None
     /\ sg.goal.signature # Absent
     /\ SenderKeyConfigured) => sg.verdict = "ok"

\* C10, witness: a signed requested goal was accepted by a receiver whose
\* list holds the sender's key after a key that does not match
C10_AcceptedOnSecondKey ==
    /\ sg.pc = "verified"
    /\ sg.altered = None
    /\ sg.goal.signature # Absent
    /\ sg.goal.state = "requested"
    /\ Len(sg.configured) >= 2
    /\ sg.configured[1].publicKey # sg.sender.signingKey.publicKey
    /\ sg.configured[2].publicKey = sg.sender.signingKey.publicKey
    /\ sg.own = Absent
    /\ sg.verdict = "ok"

\* C11, as claimed: a signed goal in which the value of a field of the
\* canonical form was changed after signGoal is rejected by verifyGoal.
C11_AlteredGoalRejected ==
    (sg.pc = "verified" /\ sg.altered # None) => sg.verdict # "ok"

\* C13, as claimed: with goal signing enabled, a goal event handed to
\* messageSending for the SdmGoal ingester leaves with a signature made over
\* its canonical form.
C13_SentGoalsAreSigned ==
    (/\ sg.pc = "signed"
     /\ sg.altered = None
     /\ sg.sender.enabled
     /\ sg.dests = <<IngesterOf("SdmGoal")>>) =>
        /\ ~sg.threw
        /\ sg.goal # Absent
        /\ sg.goal.signature # Absent
        /\ sg.goal.signature =
               CryptoSign(sg.sender.signingKey.privateKey, normalizeGoal(sg.sent))

\* C12, as claimed: two goal events that differ in at least one of
\* uniqueName, goalSetId, state, sha and ts have different canonical forms.
C12_CanonicalFormInjective ==
    (/\ nz.pc = "done"
     /\ \/ nz.left.uniqueName # nz.right.uniqueName
        \/ nz.left.goalSetId # nz.right.goalSetId
        \/ nz.left.state # nz.right.state
        \/ nz.left.sha # nz.right.sha
        \/ nz.left.ts # nz.right.ts) => nz.leftText # nz.rightText

(***************************************************************************)
(* In-process and scheduled execution, admission, progress log             *)
(***************************************************************************)
\* the steps of handle that belong to an invocation past the fulfillment check
InvocationSteps ==
    {"admit", "scheduling", "schedule", "schedule-failed", "execute", "return", "throw"}

\* C14: when the executor of an in-process goal throws, the goal's recorded
\* state becomes failure: it is not left in_process or requested.
C14_ThrownErrorRecordedAsFailure ==
    (last.by = "fulfill" /\ last.did = "throw")
        => store[last.goal].state \notin {"in_process", "requested"}

\* C15 as stated: after schedule() a non-zero code records failure "Failed to
\* schedule goal", any other result records in_process with phase scheduled,
\* and the dispatcher writes no terminal state for a scheduled goal.
C15_ScheduledGoalInProcess ==
    (last.by = "fulfill" /\ last.did \in {"schedule", "schedule-failed"})
        => IF ScheduleFailed(last.arg)
           THEN /\ store[last.goal].state = "failure"
                /\ store[last.goal].description = <<"Failed to schedule goal">>
           ELSE /\ store[last.goal].state = "in_process"
                /\ store[last.goal].phase = "scheduled"

\* C15 amended: a non-zero code records failure "Failed to schedule goal"; any
\* other result records the state the result names, in_process when it names
\* none, and the phase the result names, "scheduled" when it names none.
C15_ScheduledGoalFollowsResult ==
    (last.by = "fulfill" /\ last.did \in {"schedule", "schedule-failed"})
        => LET result == last.arg
               named == result # Absent /\ result.state # None
               phased == result # Absent /\ result.phase # None
           IN IF result # Absent /\ result.hasCode /\ result.code # 0
              THEN /\ last.did = "schedule-failed"
                   /\ store[last.goal].state = "failure"
                   /\ store[last.goal].description = <<"Failed to schedule goal">>
              ELSE /\ last.did = "schedule"
                   /\ store[last.goal].state = IF named THEN result.state ELSE "in_process"
                   /\ store[last.goal].phase = IF phased THEN result.phase ELSE "scheduled"

\* a scheduler returned a result naming the state success and the dispatcher
\* recorded it
C15_ScheduledWithTerminalState ==
    /\ last.by = "fulfill"
    /\ last.did = "schedule"
    /\ last.arg # Absent
    /\ last.arg.state = "success"
    /\ store[last.goal].state = "success"

\* the positions of the configured schedulers that support goal g
Supporting(g) == {i \in 1..Len(GoalSchedulers) : g \in GoalSchedulers[i].supports}

\* C16: the first configured scheduler whose supports() is true is the one
\* that schedules the goal, nothing else runs it, and the goal runs in process
\* exactly when no scheduler is configured or none supports it.
C16_FirstSupportingSchedulerRuns ==
    (last.by = "fulfill" /\ last.did \in InvocationSteps)
        => /\ Supporting(last.goal) = {} => last.via = "in-process"
           /\ Supporting(last.goal) # {} =>
                 \E i \in Supporting(last.goal) :
                    /\ \A j \in Supporting(last.goal) : i <= j
                    /\ last.via = GoalSchedulers[i].name
           /\ last.did \in {"scheduling", "schedule", "schedule-failed"} =>
                 last.via # "in-process"
           /\ last.did \in {"execute", "return", "throw"} => last.via = "in-process"

\* of two schedulers that support the goal the first scheduled it, and a goal
\* that no scheduler supports ran in process
C16_FirstOfTwoScheduled ==
    /\ last.by = "fulfill"
    /\ last.did = "schedule"
    /\ Cardinality(Supporting(last.goal)) = 2
    /\ last.via = "k8s"

\* C17: a goal whose fulfillment method is neither Sdm nor SideEffect is marked
\* failure with "No fulfillment for <uniqueName>", is never executed or
\* scheduled, and the handler returns success.
C17_NoFulfillmentFails ==
    /\ \A g \in Goals : plan[g].method = "other" => runs[g] = 0
    /\ \A h \in handlers :
          (h.kind = "fulfill" /\ h.pc \notin {"admit", "no-fulfillment"}) =>
              h.goal.fulfillment.method # "other"
    /\ (last.by = "fulfill" /\ last.did \in InvocationSteps)
          => plan[last.goal].method # "other"
    /\ (last.by = "fulfill" /\ last.did = "no-fulfillment")
          => /\ store[last.goal].state = "failure"
             /\ store[last.goal].description = <<"No fulfillment for ", last.goal>>
             /\ last.outcome = "Success"

\* a goal with method other was admitted and failed
C17_NoFulfillmentHandled ==
    /\ last.by = "fulfill"
    /\ last.did = "no-fulfillment"
    /\ plan[last.goal].method = "other"
    /\ store[last.goal].state = "failure"

\* C18 as stated: a goal that the re-check finds canceled is not executed or
\* scheduled; the handler writes no state and returns success.
C18_CanceledGoalNotRun ==
    /\ (last.by = "fulfill" /\ last.did \in {"admit", "unfulfilled"})
          => store[last.goal].state # "canceled"
    /\ (last.by = "fulfill" /\ last.did = "canceled")
          => last.wrote = None /\ last.outcome = "Success"

\* C18 amended: a goal that cancelableGoal reports cancelable and that the
\* re-check finds canceled is not executed or scheduled; the handler writes no
\* state and returns success.
C18_CancelableCanceledGoalNotRun ==
    /\ (/\ last.by = "fulfill"
        /\ last.did \in {"admit", "unfulfilled"}
        /\ plan[last.goal].cancelable)
          => store[last.goal].state # "canceled"
    /\ (last.by = "fulfill" /\ last.did = "canceled")
          => /\ last.wrote = None
             /\ last.outcome = "Success"
             /\ store[last.goal].state = "canceled"

\* the re-check found a requested goal canceled and the handler left
C18_CanceledAtAdmission ==
    /\ last.by = "fulfill"
    /\ last.did = "canceled"
    /\ last.seen = "requested"
    /\ store[last.goal].state = "canceled"
    /\ runs[last.goal] = 0

\* C19: on every path on which handle leaves an invocation the progress log is
\* closed, and it is closed before the state of that path is published.
C19_ProgressLogClosedBeforePublish ==
    (last.by = "fulfill" /\ last.did \in InvocationSteps /\ last.outcome # None)
        => last.log = "closed"

(***************************************************************************)
(* Completion reactor                                                      *)
(***************************************************************************)
\* C20: the reactor publishes success only when no goal of the set it fetched
\* is in a state other than success, and never for a completed goal in failure.
C20_SuccessOnlyWhenAllSucceeded ==
    [][/\ \A h \in handlers :
             (h.kind = "reactor" /\ h \notin handlers') =>
                /\ last'.by = "reactor"
                /\ last'.did = "listen"
                /\ statuses' = statuses \cup last'.published
                /\ "success" \in last'.published =>
                      /\ h.goal.state # "failure"
                      /\ \A g \in Goals : h.allGoals[g] = "success"
                /\ h.goal.state = "failure" => last'.published = {"failure"}
       /\ (\A h \in handlers : h.kind = "reactor" => h \in handlers') =>
             statuses' = statuses]_vars

\* the last goal of a set completed with every goal in success and the reactor
\* published success
C20_SuccessPublished ==
    /\ last.by = "reactor"
    /\ last.did = "listen"
    /\ last.published = {"success"}
    /\ \A g \in Goals : store[g].state = "success"

(***************************************************************************)
(* Cancel twice                                                            *)
(***************************************************************************)
\* C21: in a second run of cancelGoalSet a goal fetched in the state the first
\* run left it in is not updated: the turn for it changes no goal and emits
\* no goal event.
C21_SecondCancelWritesNothing ==
    [][(/\ cancel.pc = "loop"
        /\ cancel'.pc = "loop"
        /\ cancel'.next = cancel.next + 1
        /\ cancel.run >= 2
        /\ cancel.snap[GoalOrder[cancel.next]] = cancel.prev[GoalOrder[cancel.next]])
           => /\ store' = store
              /\ busRequested' = busRequested
              /\ busSuccess' = busSuccess
              /\ busCompleted' = busCompleted]_vars

\* the second run has passed over a goal that the first run canceled and a
\* goal that the first run found ended
C21_CanceledTwice ==
    /\ last.by = "cancel"
    /\ last.did = "finish"
    /\ cancel.run = 2
    /\ \E g \in Goals : cancel.prev[g] = "canceled" /\ cancel.snap[g] = "canceled"
    /\ \E g \in Goals : cancel.prev[g] \in TerminalStates \ {"canceled"}
                         /\ cancel.snap[g] = cancel.prev[g]
    /\ \A g \in Goals : cancel.left[g] = cancel.prev[g]

(***************************************************************************)
(* list goal sets / cancel goal sets                                       *)
(***************************************************************************)
\* C22: the list command renders each pending goal set of this registration
\* once, with one Cancel button for it, and then responds.
C22_EachPendingSetListedOnce ==
    cmd.kind = "list" => \A i \in 1..Len(SetIds) : Rendered(SetIds[i]) <= 1

\* C23: the cancel command without a goalSetId comes to its end, and then
\* every goal set that was pending for this registration is canceled and
\* every goal of it is canceled or had ended.
C23_CancelAllCompletes ==
    (cmd.kind = "cancel" /\ cmd.pc = "start")
        ~> (/\ cmd.pc = "done"
            /\ \A id \in cmd.pendingAtStart :
                  /\ goalSets[id].state = "canceled"
                  /\ \A i \in DOMAIN goalSets[id].goals :
                        goalSets[id].goals[i] \in CancelExempt)

\* the command has ended after canceling more pending sets than one page holds
C23_CanceledMoreThanAPage ==
    /\ cmd.kind = "cancel"
    /\ cmd.pc = "done"
    /\ Cardinality(cmd.pendingAtStart) > Fetch
    /\ \A id \in cmd.pendingAtStart :
          /\ goalSets[id].state = "canceled"
          /\ \E i \in DOMAIN goalSets[id].goals : goalSets[id].goals[i] = "canceled"

(***************************************************************************)
(* The isolated worker                                                     *)
(***************************************************************************)
\* C24: when startupSuccessful of the worker has ended, however the query
\* and the processing of the event went, the handler was run once for the
\* goal fetched and the process was told to exit with code 0.
C24_WorkerExitsZero ==
    (worker.isMaster /\ worker.pc \in {"returned", "rejected", "exited"})
        => /\ worker.pc = "exited"
           /\ worker.exitCode = 0
           /\ Len(worker.processed) = 1

(***************************************************************************)
(* Kubernetes Jobs                                                         *)
(***************************************************************************)
\* the goal a Job was made for
GoalIdOfJob(job) ==
    (CHOOSE i \in 1..Len(job.env) : job.env[i].name = "ATOMIST_GOAL_ID")

\* C25: launching the same goal again, one launch after the other or both at
\* a time, never leaves two Jobs for that goal, and a launch issues replace
\* --force if a Job of the computed name exists and apply otherwise.
C25_JobIdempotent ==
    /\ \A j1 \in kube.jobs, j2 \in kube.jobs :
          j1.env[GoalIdOfJob(j1)].value = j2.env[GoalIdOfJob(j2)].value => j1 = j2
    /\ \A i \in 1..Len(kube.issued) :
          kube.issued[i].command = IF kube.issued[i].existed THEN "replace" ELSE "apply"

\* the launches that have built their manifest
Built == {i \in DOMAIN kube.launches : kube.launches[i].jobSpec # Absent}

\* the name of a manifest is <deployment>-job-<first 7 characters of
\* goalSetId>-<goalName>, goalName the lower-cased unique name before #
NamedAsStated(l) ==
    LET idPart == IF Len(l.goal.goalSetId) < 7 THEN Len(l.goal.goalSetId) ELSE 7
        hashes == {k \in 1..Len(l.goal.uniqueName) : l.goal.uniqueName[k] = "#"}
        namePart == IF hashes = {} THEN Len(l.goal.uniqueName)
                    ELSE (CHOOSE k \in hashes : \A h \in hashes : k <= h) - 1
        name == l.jobSpec.name
    IN /\ Len(name) = Len(DeploymentName) + 5 + idPart + 1 + namePart
       /\ \A k \in 1..Len(DeploymentName) : name[k] = DeploymentName[k]
       /\ SubSeq(name, Len(DeploymentName) + 1, Len(DeploymentName) + 5)
             = <<"-", "j", "o", "b", "-">>
       /\ \A k \in 1..idPart : name[Len(DeploymentName) + 5 + k] = l.goal.goalSetId[k]
       /\ name[Len(DeploymentName) + 5 + idPart + 1] = "-"
       /\ \A k \in 1..namePart :
             LET c == name[Len(DeploymentName) + 5 + idPart + 1 + k]
             IN /\ c \notin {"B", "U", "I", "L", "D", "T", "E", "S", "#"}
                /\ c = toLowerCaseChar(l.goal.uniqueName[k])

\* C26 as stated: for the same goalSetId, goalName, deployment and namespace
\* (and deployment spec) the manifest is the same, and it is named as stated.
C26_ManifestDeterministic ==
    /\ \A i \in Built, j \in Built :
          (/\ kube.launches[i].goal.goalSetId = kube.launches[j].goal.goalSetId
           /\ goalNameOf(kube.launches[i].goal) = goalNameOf(kube.launches[j].goal))
              => kube.launches[i].jobSpec = kube.launches[j].jobSpec
    /\ \A i \in Built : NamedAsStated(kube.launches[i])

\* C26 amended: for the same goal event (goalSetId, uniqueName, id) and the
\* same workspace and correlation id of the context, besides deployment,
\* namespace and deployment spec, the manifest is the same; it is named as
\* stated.
C26_ManifestOfEventAndContext ==
    /\ \A i \in Built, j \in Built :
          (/\ kube.launches[i].goal.goalSetId = kube.launches[j].goal.goalSetId
           /\ goalNameOf(kube.launches[i].goal) = goalNameOf(kube.launches[j].goal)
           /\ kube.launches[i].goal.id = kube.launches[j].goal.id
           /\ kube.launches[i].ctx = kube.launches[j].ctx)
              => kube.launches[i].jobSpec = kube.launches[j].jobSpec
    /\ \A i \in Built : NamedAsStated(kube.launches[i])

\* two launches have built the manifest of the same goal event, one with an
\* upper-case letter and a # in its unique name, in the same context
C26_SameManifestTwice ==
    /\ Built = {1, 2}
    /\ kube.launches[1].goal = kube.launches[2].goal
    /\ kube.launches[1].ctx = kube.launches[2].ctx
    /\ kube.launches[1].goal.uniqueName = <<"B", "u", "i", "l", "d", "#", "1">>
    /\ Len(kube.launches[1].goal.goalSetId) > 7
    /\ kube.launches[1].jobSpec = kube.launches[2].jobSpec

(***************************************************************************)
(* Requesting a goal that is ready                                         *)
(***************************************************************************)
\* C27: a goal that is ready is written waiting_for_pre_approval when it asks
\* for pre-approval and requested otherwise; in the latter case every
\* fulfillment callback has been invoked, in the order of the list and each
\* on what the one before returned, before requested is written, and the
\* update carries the data the last callback returned.
C27_CallbacksBeforeRequested ==
    request.pc = "written" =>
        IF request.sdmG.preApprovalRequired = "true"
        THEN request.update.state = "waiting_for_pre_approval"
        ELSE /\ request.update.state = "requested"
             /\ Len(request.invoked) = Len(request.cbs)
             /\ \A i \in 1..Len(request.cbs) :
                   /\ request.invoked[i].cb = request.cbs[i]
                   /\ request.invoked[i].given =
                         IF i = 1 THEN request.sdmG.data ELSE request.invoked[i - 1].returned
             /\ request.update.data =
                   IF request.cbs = <<>> THEN request.sdmG.data
                   ELSE request.invoked[Len(request.cbs)].returned

(***************************************************************************)
(* Candidacy                                                               *)
(***************************************************************************)
\* the states from which a goal may become a candidate
ReEvaluated(state, g) ==
    \/ state \in {"planned", "skipped"}
    \/ state = "failure" /\ plan[g].retryFeasible

\* d names the goal u among its preconditions
Names(d, u) ==
    \E i \in 1..Len(plan[d].preConditions) :
        /\ plan[d].preConditions[i].environment = u.environment
        /\ plan[d].preConditions[i].uniqueName = u.uniqueName

C29_DependentIffKeyAmongPreconditions ==
    dep.pc = "answered" =>
        dep.result =
            (/\ dep.goal # Absent
             /\ dep.goal.hasPreConditions
             /\ \E i \in 1..Len(dep.goal.preConditions) :
                   /\ dep.goal.preConditions[i].environment = dep.successfulGoal.environment
                   /\ dep.goal.preConditions[i].uniqueName = dep.successfulGoal.uniqueName)

(***************************************************************************)
(* Job tasks                                                               *)
(***************************************************************************)
\* the task data that name the type Command
CommandTexts ==
    {"{\"type\":\"command\"}", "{\"type\":\"command\",\"parameters\":{\"param\":\"bar\"}}"}

\* C30: for a task in state created of type Command the listener has, when it
\* ends, marked the task failed with "Task command '<name>' could not be
\* found" if no such command is registered; otherwise it has invoked the
\* command with the parameters of the task and marked the task success when
\* the result has code 0 or none and failed when the code is another or the
\* command threw; and it returns code 0 in every case.
C30_TaskRecordedAndZeroReturned ==
    (task.pc \in {"returned", "rejected"} /\ task.state = "created"
        /\ task.data \in CommandTexts) =>
        /\ task.outcome = "Success"
        /\ Len(task.updates) = 1
        /\ IF task.name \notin RegisteredCommands
           THEN /\ task.invoked = <<>>
                /\ task.updates[1] =
                      [state |-> "failed",
                       message |-> <<"Task command '", task.name, "' could not be found">>]
           ELSE /\ Len(task.invoked) = 1
                /\ task.invoked[1].name = task.name
                /\ task.invoked[1].parameters =
                      IF task.data = "{\"type\":\"command\"}" THEN <<>>
                      ELSE <<[name |-> "param", value |-> "bar"]>>
                /\ task.updates[1].state =
                      IF task.result.kind # "rejected" /\ task.result.code \in {None, "0"}
                      THEN "success" ELSE "failed"

(***************************************************************************)
(* Deploy enablement                                                       *)
(***************************************************************************)
\* C31: every invocation of enable deploy has sent a deploy-enablement event
\* with state requested for the mapped owner, repo and provider, every
\* invocation of disable deploy one with state disabled, in the order of the
\* invocations; so the flag of a repo (the state of the last event sent for
\* it) is that of the last command invoked for it.
C31_FlagFollowsLastCommand ==
    /\ Len(deploy.sent) = Len(deploy.invoked)
    /\ \A i \in 1..Len(deploy.invoked) :
          i <= Len(deploy.sent) =>
             deploy.sent[i] =
                [state |-> IF deploy.invoked[i].name = "EnableDeploy"
                           THEN "requested" ELSE "disabled",
                 owner |-> deploy.invoked[i].params.owner,
                 repo |-> deploy.invoked[i].params.repo,
                 providerId |-> deploy.invoked[i].params.providerId]

(***************************************************************************)
(* Liveness of the state engine                                            *)
(***************************************************************************)
\* the goal is planned and each of its preconditions has succeeded
ReadyToAdvance(g) ==
    /\ store[g].state = "planned"
    /\ Len(plan[g].preConditions) > 0
    /\ PreconditionsSucceeded(StateOf(store), g)

Advanced(g) == store[g].state \in {"requested", "waiting_for_pre_approval"}

\* C32 as stated: a planned goal whose preconditions have all succeeded is
\* eventually requested (or waiting_for_pre_approval), whatever its
\* fulfillment method.
C32_PlannedGoalAdvanced ==
    \A g \in Goals : ReadyToAdvance(g) ~> Advanced(g)

\* the goals the state engine of this registration requests
RequestedHere(g) ==
    \/ plan[g].method \in {"sdm", "other"}
    \/ plan[g].method = "side-effect" /\ plan[g].fname # Me

\* C32 amended: a planned goal whose preconditions have all succeeded is
\* eventually requested (or waiting_for_pre_approval) when its fulfillment
\* method is Sdm or Other, or SideEffect under a name other than this
\* registration's; a side effect named like this registration is left planned.
C32_PlannedGoalAdvancedUnlessOwnSideEffect ==
    \A g \in Goals : (ReadyToAdvance(g) /\ RequestedHere(g)) ~> Advanced(g)

\* a goal fulfilled by other means has been requested after its upstream
\* succeeded
C32_OtherGoalRequested ==
    /\ last.by = "engine"
    /\ last.did = "request"
    /\ plan[last.goal].method = "other"
    /\ store[last.goal].state = "requested"
    /\ PreconditionsSucceeded(StateOf(store), last.goal)

(***************************************************************************)
(* The state of the goal-set record                                        *)
(***************************************************************************)
\* a record state agrees with the goals: pending if a goal is not terminal,
\* success if all succeeded, failure or canceled otherwise
AgreesWithGoals(recordState, states) ==
    IF \E g \in Goals : states[g] \notin TerminalStates THEN recordState = "pending"
    ELSE IF \A g \in Goals : states[g] = "success" THEN recordState = "success"
    ELSE recordState \in {"failure", "canceled"}

\* C33: the goal-set record cancelGoalSet emits carries the state derived from
\* the goals of the set at that moment.
C33_SetRecordIsDerived ==
    (last.by = "cancel" /\ last.did = "finish") =>
        AgreesWithGoals(setRecord, StateOf(store))

(***************************************************************************)
(* Job cleanup                                                             *)
(***************************************************************************)
\* the name begins with <deployment>-job-
OfDeployment(name) ==
    /\ Len(name) >= Len(DeploymentName) + 5
    /\ \A k \in 1..Len(DeploymentName) : name[k] = DeploymentName[k]
    /\ name[Len(DeploymentName) + 1] = "-"
    /\ name[Len(DeploymentName) + 2] = "j"
    /\ name[Len(DeploymentName) + 3] = "o"
    /\ name[Len(DeploymentName) + 4] = "b"
    /\ name[Len(DeploymentName) + 5] = "-"

\* C34: every Job the cleanup deleted had a name beginning with
\* <deployment>-job- and status.succeeded > 0 when it was deleted (no Job that
\* is running or failed is deleted); a finished run has deleted every such
\* Job it listed; and the cleanup runs on the master only.
C34_CleanupDeletesSucceededJobs ==
    /\ \A i \in 1..Len(clean.deleted) :
          /\ OfDeployment(clean.deleted[i].name)
          /\ clean.deleted[i].status.hasStatus
          /\ clean.deleted[i].status.succeeded > 0
    /\ clean.pc = "done" =>
          \A k \in 1..Len(CleanNames) :
             (/\ clean.listed[CleanNames[k]].job
              /\ OfDeployment(CleanNames[k])
              /\ clean.listed[CleanNames[k]].hasStatus
              /\ clean.listed[CleanNames[k]].succeeded > 0) =>
                 \E i \in 1..Len(clean.deleted) : clean.deleted[i].name = CleanNames[k]
    /\ ~clean.isMaster => clean.pc = "idle" /\ clean.deleted = <<>>

(***************************************************************************)
(* Construction of push tests                                              *)
(***************************************************************************)
\* some maker knows the node by itself
Recognised(node) ==
    \/ node.type = "function"
    \/ node.type = "string" /\ node.text \in {"is_default_branch", "to-default-branch"}
    \/ node.keys # {}
    \/ node.isGoal
    \/ node.hasFileContaining # "absent"
    \/ node.hasResourceProvider # "absent"
    \/ node.not # Absent
    \/ node.and # Absent
    \/ node.or # Absent
    \/ node.use # None /\ node.use \in additionalTests \cup extensionTests

\* the node, or a node below it, is not recognised or lacks a required field
RECURSIVE Faulty(_)
Faulty(node) ==
    \/ ~Recognised(node)
    \/ node.hasFileContaining = "noContent"
    \/ node.hasResourceProvider = "noType"
    \/ node.isGoalTest # Absent /\ Faulty(node.isGoalTest)
    \/ node.not # Absent /\ Faulty(node.not)
    \/ node.and # Absent /\ \E k \in 1..Len(node.and) : Faulty(node.and[k])
    \/ node.or # Absent /\ \E k \in 1..Len(node.or) : Faulty(node.or[k])

\* C35 as stated: a node that nothing recognises, that lacks a required
\* field, or that has such a node in a subtree of not, and, or, makes mapTest
\* throw.
C35_FaultyNodeThrows ==
    (mapping.pc = "mapped" /\ Faulty(mapping.test)) => mapping.result.threw

\* the node as the first of its kinds, in the order in which the kinds are
\* tried, with the nodes below it taken the same way
RECURSIVE AsFirstKind(_)
AsFirstKind(node) ==
    LET below(tests) == [k \in 1..Len(tests) |-> AsFirstKind(tests[k])]
    IN IF node.type # "object" THEN node
       ELSE IF node.keys \cap {"hasFile", "isRepo", "isBranch"} # {}
       THEN NodeOfKeys(node.keys \cap {"hasFile", "isRepo", "isBranch"})
       ELSE IF node.isGoal
       THEN [EmptyNode EXCEPT !.isGoal = TRUE,
                              !.isGoalTest = IF node.isGoalTest = Absent THEN Absent
                                             ELSE AsFirstKind(node.isGoalTest)]
       ELSE IF "isMaterialChange" \in node.keys THEN NodeOfKeys({"isMaterialChange"})
       ELSE IF node.hasFileContaining # "absent"
       THEN [EmptyNode EXCEPT !.hasFileContaining = node.hasFileContaining]
       ELSE IF node.hasResourceProvider # "absent"
       THEN [EmptyNode EXCEPT !.hasResourceProvider = node.hasResourceProvider]
       ELSE IF "hasCommit" \in node.keys THEN NodeOfKeys({"hasCommit"})
       ELSE IF node.not # Absent THEN NodeNot(AsFirstKind(node.not))
       ELSE IF node.and # Absent THEN NodeAnd(below(node.and))
       ELSE IF node.or # Absent THEN NodeOr(below(node.or))
       ELSE [EmptyNode EXCEPT !.use = node.use]

\* C35, amended: mapTest throws exactly when the node, taken as the first of
\* its kinds in the order of the makers (and so every node below it), is not
\* recognised, lacks a required field, or has such a node below it; a key of
\* a later kind on a node that an earlier kind recognises is never looked at.
C35_FaultyAsFirstKindThrows ==
    mapping.pc = "mapped" => (mapping.result.threw <=> Faulty(AsFirstKind(mapping.test)))

\* an and node whose second element is a not over a hasFileContaining
\* without content has been given to mapTest, which threw
C35_NestedErrorThrown ==
    /\ mapping.pc = "mapped"
    /\ mapping.test.keys = {}
    /\ mapping.test.and # Absent
    /\ Len(mapping.test.and) = 2
    /\ mapping.test.and[1] = GoodLeaf
    /\ mapping.test.and[2] = NodeNot(BadLeaf)
    /\ mapping.result.threw

\* C36: two launches for distinct goals (another uniqueName or another
\* goalSetId) build Jobs of different names, and a launch that found a Job of
\* its name, and so goes on to replace --force, found the Job of its own goal.
C36_DistinctGoalsDistinctJobs ==
    /\ \A i \in Built, j \in Built :
          (\/ kube.launches[i].goal.uniqueName # kube.launches[j].goal.uniqueName
           \/ kube.launches[i].goal.goalSetId # kube.launches[j].goal.goalSetId)
             => kube.launches[i].jobSpec.name # kube.launches[j].jobSpec.name
    /\ \A i \in Built :
          (kube.launches[i].pc = "checked" /\ kube.launches[i].found) =>
             \A job \in kube.jobs :
                job.name = kube.launches[i].jobSpec.name =>
                   job.env[GoalIdOfJob(job)].value = kube.launches[i].goal.id

(***************************************************************************)
(* A join is requested once                                                *)
(***************************************************************************)
\* C37: a goal with several preconditions is put in state requested at most
\* once, whatever the order and number of deliveries of its preconditions'
\* success events.
C37_JoinRequestedOnce ==
    \A g \in Goals : Len(plan[g].preConditions) >= 2 => reqCount[g] <= 1

(***************************************************************************)
(* A job task event is always answered                                     *)
(***************************************************************************)
\* the texts that are no JSON
Unparsable == {"", "{"}

\* C38: when the listener has ended it has written at most one task state
\* and returned Success; a task that was not in state created has no update;
\* a created task whose job data or task data is no JSON has exactly one
\* update, to failed.
C38_OneUpdateAndSuccess ==
    task.pc \in {"returned", "rejected"} =>
        /\ task.outcome = "Success"
        /\ Len(task.updates) <= 1
        /\ task.state # "created" => task.updates = <<>>
        /\ (task.state = "created"
              /\ (task.jobData \in Unparsable \/ task.data \in Unparsable)) =>
              /\ Len(task.updates) = 1
              /\ task.updates[1].state = "failed"

(***************************************************************************)
(* An isolated worker schedules no worker                                  *)
(***************************************************************************)
\* the process runs with ATOMIST_ISOLATED_GOAL set
Isolated(proc) == proc.env.ATOMIST_ISOLATED_GOAL = "true"

\* C39: a process with ATOMIST_ISOLATED_GOAL set has no Kubernetes goal
\* scheduler in its configuration, has executed its goal in process when it is
\* done, and is the parent of no process; so a goal has at most one Job.
C39_WorkerSchedulesNoWorker ==
    /\ \A p \in DOMAIN pack.procs :
          Isolated(pack.procs[p]) =>
             /\ \A k \in 1..Len(pack.procs[p].goalScheduler.items) :
                   pack.procs[p].goalScheduler.items[k].name # "k8s"
             /\ pack.procs[p].pc = "done" => pack.procs[p].via = "in-process"
             /\ \A q \in DOMAIN pack.procs : pack.procs[q].parent # p
    /\ Cardinality({p \in DOMAIN pack.procs : pack.procs[p].parent # 0}) <= 1

\* a process without the variable has scheduled its goal as a Job, and the
\* worker of that Job has executed the goal in process
C39_WorkerOfJobRanInProcess ==
    /\ Len(pack.procs) = 2
    /\ ~Isolated(pack.procs[1])
    /\ pack.procs[1].via = "k8s"
    /\ pack.procs[2].parent = 1
    /\ Isolated(pack.procs[2])
    /\ pack.procs[2].pc = "done"
    /\ pack.procs[2].via = "in-process"

(***************************************************************************)
(* A rejected goal is rejected once                                        *)
(***************************************************************************)
\* C40: the event of a goal that verifyGoal has rejected is recognised by
\* isGoalRejected, and a later verifyGoal on it has written no further update
\* and raised no error.
C40_RejectedOnce ==
    /\ rej.pc \in {"rejected", "again"} => isGoalRejected(rej.goal)
    /\ rej.pc = "again" => Len(rej.updates) = 1 /\ rej.errors = 1

============================================================================
